---- MODULE Spec2Model ----
(***************************************************************************)
(* State-machine model of the mynta-core evo/llmq layer: the ChainLock     *)
(* database and manager (llmq/chainlocks.cpp), the InstantSend database    *)
(* and manager (llmq/instantsend.cpp), the signing manager                 *)
(* (llmq/quorums.cpp) and the deterministic masternode list                *)
(* (evo/deterministicmns.cpp, evo/providertx.cpp).                         *)
(*                                                                         *)
(* 256-bit hashes are ideal: a hash is the tagged tuple of what was fed to *)
(* the hash writer, so two hashes are equal exactly when the same fields   *)
(* were written.  BLS signatures are symbolic: a signature is the bag of   *)
(* (secret key, message) terms it aggregates, a public key the bag of      *)
(* secret keys it aggregates.                                              *)
(***************************************************************************)
EXTENDS Integers, Sequences, FiniteSets, Bags, TLC

\* ------------------------------------------------------------------------
\* Bounds of the explored universe
\* ------------------------------------------------------------------------
\* number of block heights above the ChainLock activation height
HeightSpan == 1
\* number of side branches of the block tree
NumForks == 1
\* number of outpoints transactions spend
NumOutpoints == 2

\* ------------------------------------------------------------------------
\* Program constants
\* ------------------------------------------------------------------------
CHAINLOCK_ACTIVATION_HEIGHT == 1000
LLMQ_50_60 == 1
LLMQ_400_60 == 2
CHAINLOCK_QUORUM_TYPE == LLMQ_400_60
\* percentage of valid members whose shares recover a signature
LLMQ_THRESHOLD == 60

\* ------------------------------------------------------------------------
\* std::map helpers
\* ------------------------------------------------------------------------
EmptyMap == <<>>

MapPut(m, k, v) == [x \in (DOMAIN m) \cup {k} |-> IF x = k THEN v ELSE m[x]]

MapErase(m, k) == [x \in (DOMAIN m) \ {k} |-> m[x]]

MapEraseAll(m, ks) == [x \in (DOMAIN m) \ ks |-> m[x]]

Max(S) == CHOOSE x \in S : \A y \in S : y <= x

Min(S) == CHOOSE x \in S : \A y \in S : x <= y

\* the element of a one-element set; The({e(x) : x \in {v}}) is e with x
\* bound to the value of v, computed once
The(S) == CHOOSE x \in S : TRUE

RECURSIVE SortedSeq(_)
SortedSeq(S) == IF S = {} THEN <<>> ELSE <<Min(S)>> \o SortedSeq(S \ {Min(S)})

\* ------------------------------------------------------------------------
\* Block index: a tree with a main chain (branch 0) and NumForks side
\* branches; branch k leaves the main chain after height MaxHeight - k.
\* ------------------------------------------------------------------------
MinHeight == CHAINLOCK_ACTIVATION_HEIGHT - 1

MaxHeight == CHAINLOCK_ACTIVATION_HEIGHT + HeightSpan

nullptr == [nHeight |-> -1, branch |-> -1]

BlockIndex ==
    {[nHeight |-> h, branch |-> 0] : h \in MinHeight..MaxHeight}
    \cup {[nHeight |-> h, branch |-> k] : k \in 1..NumForks, h \in MinHeight..MaxHeight}

AllBlocks == {p \in BlockIndex : p.branch = 0 \/ p.nHeight > MaxHeight - p.branch}

NullHash == <<"0">>

GetBlockHash(p) == <<"blk", p.nHeight, p.branch>>

pprev(p) ==
    IF p.nHeight <= MinHeight THEN nullptr
    ELSE IF p.branch = 0 \/ p.nHeight > MaxHeight - p.branch + 1
         THEN [nHeight |-> p.nHeight - 1, branch |-> p.branch]
         ELSE [nHeight |-> p.nHeight - 1, branch |-> 0]

RECURSIVE LastCommonAncestor(_, _)
LastCommonAncestor(pa, pb) ==
    IF pa = nullptr \/ pb = nullptr THEN nullptr
    ELSE IF pa.nHeight > pb.nHeight THEN LastCommonAncestor(pprev(pa), pb)
    ELSE IF pb.nHeight > pa.nHeight THEN LastCommonAncestor(pa, pprev(pb))
    ELSE IF pa = pb THEN pa
    ELSE LastCommonAncestor(pprev(pa), pprev(pb))

\* ------------------------------------------------------------------------
\* Symbolic BLS
\* ------------------------------------------------------------------------
NullSig == [fValid |-> FALSE, terms |-> EmptyBag]

NullPubKey == [fValid |-> FALSE, keys |-> EmptyBag]

Sign(sk, hash) == [fValid |-> TRUE, terms |-> SetToBag({<<sk, hash>>})]

GetPublicKey(sk) == [fValid |-> TRUE, keys |-> SetToBag({sk})]

RECURSIVE SumTerms(_)
SumTerms(sigs) ==
    IF Len(sigs) = 0 THEN EmptyBag ELSE Head(sigs).terms (+) SumTerms(Tail(sigs))

AggregateSignatures(sigs) ==
    IF Len(sigs) = 0 THEN NullSig
    ELSE IF Len(sigs) = 1 THEN sigs[1]
    ELSE IF \E i \in 1..Len(sigs) : ~sigs[i].fValid THEN NullSig
    ELSE [fValid |-> TRUE, terms |-> SumTerms(sigs)]

RECURSIVE SumKeys(_)
SumKeys(pks) ==
    IF Len(pks) = 0 THEN EmptyBag ELSE Head(pks).keys (+) SumKeys(Tail(pks))

AggregatePublicKeys(pks) ==
    IF Len(pks) = 0 THEN NullPubKey
    ELSE IF Len(pks) = 1 THEN pks[1]
    ELSE IF \E i \in 1..Len(pks) : ~pks[i].fValid THEN NullPubKey
    ELSE [fValid |-> TRUE, keys |-> SumKeys(pks)]

RecoverThresholdSignature(sigs, ids, threshold) ==
    IF Len(sigs) < threshold \/ Len(sigs) # Len(ids) THEN NullSig
    ELSE AggregateSignatures(sigs)

VerifyInsecure(sig, pk, hash) ==
    /\ sig.fValid
    /\ pk.fValid
    /\ sig.terms = [t \in {<<k, hash>> : k \in BagToSet(pk.keys)} |-> pk.keys[t[1]]]

SetSecretKeyFromSeed(seed) == <<"seed", "sk", seed>>

\* ------------------------------------------------------------------------
\* Quorums (llmq/quorums.cpp).  The quorum cache is fixed: two quorums per
\* type with scaled-down member lists; which of them are active varies.
\* ------------------------------------------------------------------------
LLMQTypes == {LLMQ_50_60, LLMQ_400_60}

ProTxHash(i) == <<"mn", i>>

OperatorSecretKey(i) == <<"op", "sk", i>>

\* proTxHash of this node as registered with the quorum manager
quorumManager_myProTxHash == ProTxHash(1)

QuorumHash(type, pindex) == <<"LLMQ_QUORUM", type, GetBlockHash(pindex), "q">>

BuildQuorum(type, pindex, ids, hasShare) ==
    LET members == [j \in 1..Len(ids) |->
                       [proTxHash |-> ProTxHash(ids[j]),
                        pubKeyOperator |-> GetPublicKey(OperatorSecretKey(ids[j])),
                        valid |-> TRUE]]
        memberPubKeys == [j \in 1..Len(ids) |-> members[j].pubKeyOperator]
    IN [llmqType |-> type,
        quorumHash |-> QuorumHash(type, pindex),
        quorumHeight |-> pindex.nHeight,
        members |-> members,
        validMemberCount |-> Len(ids),
        quorumPublicKey |-> AggregatePublicKeys(memberPubKeys),
        fValid |-> TRUE,
        skShare |-> hasShare]

QuorumA(type) ==
    BuildQuorum(type, [nHeight |-> MinHeight, branch |-> 0], <<1>>, TRUE)

QuorumB(type) ==
    BuildQuorum(type, [nHeight |-> CHAINLOCK_ACTIVATION_HEIGHT, branch |-> 0], <<2, 3, 4>>, FALSE)

\* a quorum of three with this node among its members (threshold 2)
QuorumC(type) ==
    BuildQuorum(type, [nHeight |-> CHAINLOCK_ACTIVATION_HEIGHT + 1, branch |-> 0],
                <<1, 2, 3>>, TRUE)

quorumCache(type) == {QuorumA(type), QuorumB(type), QuorumC(type)}

NoQuorum == [llmqType |-> 0, quorumHash |-> NullHash, quorumHeight |-> 0,
             members |-> <<>>, validMemberCount |-> 0,
             quorumPublicKey |-> NullPubKey, fValid |-> FALSE, skShare |-> FALSE]

GetQuorum(type, quorumHash) ==
    IF \E q \in quorumCache(type) : q.quorumHash = quorumHash
    THEN CHOOSE q \in quorumCache(type) : q.quorumHash = quorumHash
    ELSE NoQuorum

IsMember(quorum, proTxHash) ==
    \E j \in 1..Len(quorum.members) : quorum.members[j].proTxHash = proTxHash

GetThreshold(quorum) == (quorum.validMemberCount * LLMQ_THRESHOLD + 99) \div 100

\* Stand-in for the numeric order of the selection score
\* Hash("LLMQ_SELECT", quorumHash, selectionHash): a fixed function of both
\* arguments that is injective in the quorum for each selection hash.
RECURSIVE SumSeq(_)
SumSeq(sq) == IF Len(sq) = 0 THEN 0 ELSE Head(sq)[2] + SumSeq(Tail(sq))

SelectionNumber(selectionHash) ==
    IF selectionHash[1] = "clsig_request" THEN selectionHash[2]
    ELSE SumSeq(selectionHash[2]) + Len(selectionHash[2])

SelectScore(quorumHash, selectionHash) ==
    LET q == quorumHash[3][2] - MinHeight + 1
    IN ((q * (SelectionNumber(selectionHash) + 1)) % 3) * 4 + q

RECURSIVE SelectLoop(_, _, _)
SelectLoop(quorums, selectionHash, bestQuorum) ==
    IF Len(quorums) = 0 THEN bestQuorum
    ELSE LET quorum == Head(quorums)
             take == /\ quorum.fValid
                     /\ \/ bestQuorum = NoQuorum
                        \/ SelectScore(quorum.quorumHash, selectionHash)
                             < SelectScore(bestQuorum.quorumHash, selectionHash)
         IN SelectLoop(Tail(quorums), selectionHash,
                       IF take THEN quorum ELSE bestQuorum)

\* activeList is activeQuorums[type], a sequence of quorum hashes
SelectQuorumForSigning(activeList, type, selectionHash) ==
    SelectLoop([j \in 1..Len(activeList) |-> GetQuorum(type, activeList[j])],
               selectionHash, NoQuorum)

GetSecretKeyShare(type, quorumHash) ==
    LET quorum == GetQuorum(type, quorumHash)
    IN IF quorum = NoQuorum \/ ~quorum.skShare
       THEN [ok |-> FALSE, skShare |-> <<"seed", "sk", NullHash>>]
       ELSE [ok |-> TRUE, skShare |-> SetSecretKeyFromSeed(quorumHash)]

BuildSignHash(type, quorumHash, id, msgHash) == <<"sh", type, quorumHash, id, msgHash>>

\* ------------------------------------------------------------------------
\* Signing manager (llmq/quorums.cpp).  s is a record holding at least the
\* fields sigShares and recoveredSigs; act is the active quorum list.
\* ------------------------------------------------------------------------
NoRecoveredSig == [llmqType |-> 0, quorumHash |-> NullHash, id |-> NullHash,
                   msgHash |-> NullHash, sig |-> NullSig]

\* CollectShares without the membership test
RECURSIVE CollectShares_AnySender(_, _, _, _)
CollectShares_AnySender(keys, shares, quorum, threshold) ==
    IF Len(keys) = 0 \/ threshold <= 0 THEN <<>>
    ELSE <<shares[ProTxHash(Head(keys))]>>
         \o CollectShares_AnySender(Tail(keys), shares, quorum, threshold - 1)

RECURSIVE CollectShares(_, _, _, _)
CollectShares(keys, shares, quorum, threshold) ==
    IF Len(keys) = 0 \/ threshold <= 0 THEN <<>>
    ELSE IF IsMember(quorum, ProTxHash(Head(keys)))
         THEN <<shares[ProTxHash(Head(keys))]>>
              \o CollectShares(Tail(keys), shares, quorum, threshold - 1)
         ELSE CollectShares(Tail(keys), shares, quorum, threshold)

RecoverFromShares(shares, quorum, type, id, msgHash) ==
    The({IF Len(memberSigs) < GetThreshold(quorum)
         THEN [ok |-> FALSE, recSig |-> NoRecoveredSig]
         ELSE The({IF ~recoveredSig.fValid
                   THEN [ok |-> FALSE, recSig |-> NoRecoveredSig]
                   ELSE [ok |-> TRUE,
                         recSig |-> [llmqType |-> type, quorumHash |-> quorum.quorumHash,
                                     id |-> id, msgHash |-> msgHash, sig |-> recoveredSig]] :
                   recoveredSig \in {RecoverThresholdSignature(
                                        memberSigs, [j \in 1..Len(memberSigs) |-> j],
                                        GetThreshold(quorum))}}) :
         memberSigs \in {CollectShares(SortedSeq({k[2] : k \in DOMAIN shares}),
                                       shares, quorum, GetThreshold(quorum))}})

TryRecoverSignature(s, act, type, id, msgHash) ==
    IF id \in DOMAIN s.recoveredSigs
    THEN [ok |-> TRUE, recSig |-> s.recoveredSigs[id]]
    ELSE IF id \notin DOMAIN s.sigShares
    THEN [ok |-> FALSE, recSig |-> NoRecoveredSig]
    ELSE The({IF quorum = NoQuorum THEN [ok |-> FALSE, recSig |-> NoRecoveredSig]
              ELSE IF Cardinality(DOMAIN s.sigShares[id]) < GetThreshold(quorum)
              THEN [ok |-> FALSE, recSig |-> NoRecoveredSig]
              ELSE RecoverFromShares(s.sigShares[id], quorum, type, id, msgHash) :
              quorum \in {SelectQuorumForSigning(act, type, id)}})

\* AsyncSign once the quorum is selected and the share key is at hand
SignAndStoreShare(s, act, type, id, msgHash, quorum, skShare) ==
    The({The({IF rec.ok
              THEN [s |-> [s1 EXCEPT !.recoveredSigs = MapPut(s1.recoveredSigs, id, rec.recSig)],
                    ok |-> TRUE]
              ELSE [s |-> s1, ok |-> TRUE] :
              rec \in {TryRecoverSignature(s1, act, type, id, msgHash)}}) :
         s1 \in {[s EXCEPT !.sigShares =
                    MapPut(s.sigShares, id,
                           MapPut(IF id \in DOMAIN s.sigShares THEN s.sigShares[id] ELSE EmptyMap,
                                  quorumManager_myProTxHash,
                                  Sign(skShare,
                                       BuildSignHash(type, quorum.quorumHash, id, msgHash))))]}})

AsyncSign(s, act, type, id, msgHash) ==
    The({IF quorum = NoQuorum THEN [s |-> s, ok |-> FALSE]
         ELSE The({IF ~sk.ok THEN [s |-> s, ok |-> FALSE]
                   ELSE SignAndStoreShare(s, act, type, id, msgHash, quorum, sk.skShare) :
                   sk \in {GetSecretKeyShare(type, quorum.quorumHash)}}) :
         quorum \in {SelectQuorumForSigning(act, type, id)}})

ProcessSigShare(s, quorumHash, id, proTxHash, sigShare) ==
    IF ~sigShare.fValid THEN [s |-> s, ok |-> FALSE]
    ELSE LET cur == IF id \in DOMAIN s.sigShares THEN s.sigShares[id] ELSE EmptyMap
         IN [s |-> [s EXCEPT !.sigShares = MapPut(s.sigShares, id, MapPut(cur, proTxHash, sigShare))],
             ok |-> TRUE]

VerifyRecoveredSig(recSig) ==
    \E quorum \in {GetQuorum(recSig.llmqType, recSig.quorumHash)} :
       /\ recSig.sig.fValid
       /\ quorum # NoQuorum
       /\ quorum.fValid
       /\ VerifyInsecure(recSig.sig, quorum.quorumPublicKey,
                         BuildSignHash(recSig.llmqType, recSig.quorumHash,
                                       recSig.id, recSig.msgHash))

\* ------------------------------------------------------------------------
\* ChainLocks (llmq/chainlocks.cpp)
\* ------------------------------------------------------------------------
CChainLockSig(nHeight, blockHash, sig) ==
    [nHeight |-> nHeight, blockHash |-> blockHash, sig |-> sig]

NullChainLockSig == CChainLockSig(0, NullHash, NullSig)

CChainLockSig_GetRequestId(clsig) == <<"clsig_request", clsig.nHeight>>

CChainLockSig_GetSignHash(clsig) ==
    <<"clsh", CHAINLOCK_QUORUM_TYPE, CChainLockSig_GetRequestId(clsig), clsig.blockHash>>

CChainLocksManager_CreateRequestId(nHeight) == <<"clsig_request", nHeight>>

EmptyChainLocksDb ==
    [locksByHeight |-> EmptyMap, locksByHash |-> EmptyMap,
     bestChainLockHeight |-> 0, bestChainLockHash |-> NullHash]

WriteChainLock_NoGuard(db, clsig) ==
    [db |-> [locksByHeight |-> MapPut(db.locksByHeight, clsig.nHeight, clsig),
             locksByHash |-> MapPut(db.locksByHash, clsig.blockHash, clsig),
             bestChainLockHeight |-> clsig.nHeight,
             bestChainLockHash |-> clsig.blockHash],
     ok |-> TRUE]

WriteChainLock(db, clsig) ==
    IF /\ clsig.nHeight <= db.bestChainLockHeight
       /\ db.bestChainLockHeight > 0
       /\ clsig.nHeight < db.bestChainLockHeight
    THEN [db |-> db, ok |-> FALSE]
    ELSE LET higher == clsig.nHeight > db.bestChainLockHeight
         IN [db |-> [locksByHeight |-> MapPut(db.locksByHeight, clsig.nHeight, clsig),
                     locksByHash |-> MapPut(db.locksByHash, clsig.blockHash, clsig),
                     bestChainLockHeight |->
                         IF higher THEN clsig.nHeight ELSE db.bestChainLockHeight,
                     bestChainLockHash |->
                         IF higher THEN clsig.blockHash ELSE db.bestChainLockHash],
             ok |-> TRUE]

GetChainLock(db, nHeight) ==
    IF nHeight \in DOMAIN db.locksByHeight
    THEN [ok |-> TRUE, clsig |-> db.locksByHeight[nHeight]]
    ELSE [ok |-> FALSE, clsig |-> NullChainLockSig]

IsChainLocked(db, nHeight) == nHeight \in DOMAIN db.locksByHeight

HasChainLock(db, blockHash) == blockHash \in DOMAIN db.locksByHash

GetBestChainLockHeight(db) == db.bestChainLockHeight

RemoveAboveHeight(db, nHeight) ==
    LET above == {h \in DOMAIN db.locksByHeight : h > nHeight}
        hashes == {db.locksByHeight[h].blockHash : h \in above}
        byHeight == MapEraseAll(db.locksByHeight, above)
        byHash == MapEraseAll(db.locksByHash, hashes)
    IN IF db.bestChainLockHeight > nHeight
       THEN [locksByHeight |-> byHeight, locksByHash |-> byHash,
             bestChainLockHeight |-> nHeight,
             bestChainLockHash |->
                 IF nHeight \in DOMAIN byHeight
                 THEN byHeight[nHeight].blockHash ELSE NullHash]
       ELSE [db EXCEPT !.locksByHeight = byHeight, !.locksByHash = byHash]

\* ------------------------------------------------------------------------
\* InstantSend lock and lock database (llmq/instantsend.cpp)
\* ------------------------------------------------------------------------
INSTANTSEND_QUORUM_TYPE == LLMQ_50_60

INSTANTSEND_MAX_INPUTS == 32

COutPoint(n) == <<"out", n>>

CInstantSendLock(inputs, txid, quorumHash, sig) ==
    [inputs |-> inputs, txid |-> txid, quorumHash |-> quorumHash, sig |-> sig]

NullInstantSendLock == CInstantSendLock(<<>>, NullHash, NullHash, NullSig)

CInstantSendLock_GetHash(islock) ==
    <<"islock", islock.inputs, islock.txid, islock.quorumHash, islock.sig>>

CInstantSendLock_GetRequestId(islock) == <<"islock_request", islock.inputs>>

CInstantSendLock_GetSignHash(islock) ==
    BuildSignHash(INSTANTSEND_QUORUM_TYPE, islock.quorumHash,
                  CInstantSendLock_GetRequestId(islock), islock.txid)

EmptyInstantSendDb ==
    [locksById |-> EmptyMap, txidToLockHash |-> EmptyMap, inputLocks |-> EmptyMap]

\* the loop "inputLocks[input] = hash" over the inputs of a lock
RECURSIVE IndexInputs(_, _, _)
IndexInputs(inputLocks, inputs, hash) ==
    IF Len(inputs) = 0 THEN inputLocks
    ELSE IndexInputs(MapPut(inputLocks, Head(inputs), hash), Tail(inputs), hash)

WriteLock(db, islock) ==
    [locksById |-> MapPut(db.locksById, CInstantSendLock_GetHash(islock), islock),
     txidToLockHash |->
         MapPut(db.txidToLockHash, islock.txid, CInstantSendLock_GetHash(islock)),
     inputLocks |->
         IndexInputs(db.inputLocks, islock.inputs, CInstantSendLock_GetHash(islock))]

GetLock(db, hash) ==
    IF hash \in DOMAIN db.locksById
    THEN [ok |-> TRUE, islock |-> db.locksById[hash]]
    ELSE [ok |-> FALSE, islock |-> NullInstantSendLock]

IsInputLocked(db, outpoint) == outpoint \in DOMAIN db.inputLocks

IsTxLocked(db, txid) == txid \in DOMAIN db.txidToLockHash

GetLockForInput(db, outpoint) ==
    IF outpoint \notin DOMAIN db.inputLocks
    THEN [ok |-> FALSE, islock |-> NullInstantSendLock]
    ELSE GetLock(db, db.inputLocks[outpoint])

\* RemoveLock that leaves the outpoint index as it is
RemoveLock_KeepInputs(db, hash) ==
    IF hash \notin DOMAIN db.locksById THEN db
    ELSE [locksById |-> MapErase(db.locksById, hash),
          txidToLockHash |-> MapErase(db.txidToLockHash, db.locksById[hash].txid),
          inputLocks |-> db.inputLocks]

RemoveLock(db, hash) ==
    IF hash \notin DOMAIN db.locksById THEN db
    ELSE [locksById |-> MapErase(db.locksById, hash),
          txidToLockHash |-> MapErase(db.txidToLockHash, db.locksById[hash].txid),
          inputLocks |->
              MapEraseAll(db.inputLocks,
                          {db.locksById[hash].inputs[j] :
                              j \in 1..Len(db.locksById[hash].inputs)})]

\* the loop over txids: each txid with an entry in the by-txid index has the
\* lock of that entry removed
RECURSIVE RemoveLocksForTxids(_, _)
RemoveLocksForTxids(db, txids) ==
    IF txids = {} THEN db
    ELSE LET txid == CHOOSE t \in txids : TRUE
         IN  RemoveLocksForTxids(
                 IF txid \in DOMAIN db.txidToLockHash
                 THEN RemoveLock(db, db.txidToLockHash[txid])
                 ELSE db,
                 txids \ {txid})

\* ------------------------------------------------------------------------
\* State
\* ------------------------------------------------------------------------
VARIABLES
    known,              \* block index entries the node has (mapBlockIndex)
    tip,                \* chainActive.Tip()
    activeQuorums,      \* CQuorumManager::activeQuorums: type -> quorum hashes
    signingManager,     \* CSigningManager: sigShares, recoveredSigs
    chainLocksManager,  \* CChainLocksManager fields, db is its CChainLocksDb
    clRet,              \* last ChainLock operation and what it returned
    crashed,            \* an operation ran into undefined behaviour and aborted
    instantSendManager, \* CInstantSendManager fields, db is its CInstantSendDb
    isThread,           \* position of the thread running ProcessTransaction
    isRet,              \* last InstantSend operation and what it returned
    mnManager,          \* CDeterministicMNManager: mnListsCache, tipList, evoDb
    blockTxs,           \* block hash -> the block, for the blocks seen so far
    mnRet,              \* last masternode operation and what it returned
    lockThreads,        \* per thread: the entry point it runs and the locks it holds
    orderBook,          \* CPersistentOrderBook: offers, indexes, height, database
    swapChain,          \* the blocks connected to the order book, oldest first
    obRet               \* last order-book operation and what it returned

isVars == <<instantSendManager, isThread, isRet>>

mnVars == <<mnManager, blockTxs, mnRet>>

lockVars == <<lockThreads>>

obVars == <<orderBook, swapChain, obRet>>

SigningPart(s) == [sigShares |-> s.sigShares, recoveredSigs |-> s.recoveredSigs]

ChainLocksPart(s) ==
    [db |-> s.db, bestChainLock |-> s.bestChainLock,
     bestChainLockBlockIndex |-> s.bestChainLockBlockIndex,
     pendingChainLocks |-> s.pendingChainLocks,
     signingHeights |-> s.signingHeights]

\* the ChainLock manager together with the signing manager it calls into
ChainLocksNode ==
    [db |-> chainLocksManager.db,
     bestChainLock |-> chainLocksManager.bestChainLock,
     bestChainLockBlockIndex |-> chainLocksManager.bestChainLockBlockIndex,
     pendingChainLocks |-> chainLocksManager.pendingChainLocks,
     signingHeights |-> chainLocksManager.signingHeights,
     sigShares |-> signingManager.sigShares,
     recoveredSigs |-> signingManager.recoveredSigs]

LookupBlockIndex(hash) ==
    IF \E p \in known : GetBlockHash(p) = hash
    THEN CHOOSE p \in known : GetBlockHash(p) = hash
    ELSE nullptr

VerifyChainLock(clsig) ==
    \E quorum \in {SelectQuorumForSigning(activeQuorums[CHAINLOCK_QUORUM_TYPE],
                                          CHAINLOCK_QUORUM_TYPE,
                                          CChainLockSig_GetRequestId(clsig))} :
       /\ clsig.sig.fValid
       /\ quorum # NoQuorum
       /\ quorum.fValid
       /\ VerifyInsecure(clsig.sig, quorum.quorumPublicKey,
                         CChainLockSig_GetSignHash(clsig))

Result(s, ok, nDoS, reason) == [s |-> s, ok |-> ok, nDoS |-> nDoS, reason |-> reason]

ProcessChainLock_NoHeightCheck(s, clsig) ==
    LET pindex == LookupBlockIndex(clsig.blockHash)
        w == WriteChainLock(s.db, clsig)
    IN IF HasChainLock(s.db, clsig.blockHash) THEN Result(s, TRUE, 0, "")
       ELSE IF ~VerifyChainLock(clsig)
       THEN Result(s, FALSE, 100, "bad-chainlock-sig")
       ELSE IF pindex = nullptr
       THEN Result([s EXCEPT !.pendingChainLocks =
                       MapPut(s.pendingChainLocks, clsig.nHeight, clsig)],
                   TRUE, 0, "")
       ELSE IF pindex.nHeight # clsig.nHeight
       THEN Result(s, FALSE, 100, "chainlock-height-mismatch")
       ELSE IF ~w.ok THEN Result(s, FALSE, 0, "")
       ELSE Result([s EXCEPT !.db = w.db,
                             !.bestChainLock = clsig,
                             !.bestChainLockBlockIndex = pindex,
                             !.pendingChainLocks = MapErase(s.pendingChainLocks, clsig.nHeight),
                             !.signingHeights = s.signingHeights \ {clsig.nHeight}],
                   TRUE, 0, "")

ProcessChainLock_ConflictUnchecked(s, clsig) ==
    LET currentBest == GetBestChainLockHeight(s.db)
    IN IF clsig.nHeight <= currentBest THEN Result(s, TRUE, 0, "")
       ELSE ProcessChainLock_NoHeightCheck(s, clsig)

\* ProcessChainLock without the signature check
ProcessChainLock_SigUnchecked(s, clsig) ==
    LET currentBest == GetBestChainLockHeight(s.db)
        existing == GetChainLock(s.db, clsig.nHeight)
        pindex == LookupBlockIndex(clsig.blockHash)
        w == WriteChainLock(s.db, clsig)
    IN IF HasChainLock(s.db, clsig.blockHash) THEN Result(s, TRUE, 0, "")
       ELSE IF clsig.nHeight <= currentBest
       THEN IF existing.ok /\ existing.clsig.blockHash # clsig.blockHash
            THEN Result(s, FALSE, 100, "chainlock-conflict")
            ELSE Result(s, TRUE, 0, "")
       ELSE IF pindex = nullptr
       THEN Result([s EXCEPT !.pendingChainLocks =
                       MapPut(s.pendingChainLocks, clsig.nHeight, clsig)],
                   TRUE, 0, "")
       ELSE IF pindex.nHeight # clsig.nHeight
       THEN Result(s, FALSE, 100, "chainlock-height-mismatch")
       ELSE IF ~w.ok THEN Result(s, FALSE, 0, "")
       ELSE Result([s EXCEPT !.db = w.db,
                             !.bestChainLock = clsig,
                             !.bestChainLockBlockIndex = pindex,
                             !.pendingChainLocks = MapErase(s.pendingChainLocks, clsig.nHeight),
                             !.signingHeights = s.signingHeights \ {clsig.nHeight}],
                   TRUE, 0, "")

ProcessChainLock(s, clsig) ==
    LET currentBest == GetBestChainLockHeight(s.db)
        existing == GetChainLock(s.db, clsig.nHeight)
        pindex == LookupBlockIndex(clsig.blockHash)
        w == WriteChainLock(s.db, clsig)
    IN IF HasChainLock(s.db, clsig.blockHash) THEN Result(s, TRUE, 0, "")
       ELSE IF clsig.nHeight <= currentBest
       THEN IF existing.ok /\ existing.clsig.blockHash # clsig.blockHash
            THEN Result(s, FALSE, 100, "chainlock-conflict")
            ELSE Result(s, TRUE, 0, "")
       ELSE IF ~VerifyChainLock(clsig)
       THEN Result(s, FALSE, 100, "bad-chainlock-sig")
       ELSE IF pindex = nullptr
       THEN Result([s EXCEPT !.pendingChainLocks =
                       MapPut(s.pendingChainLocks, clsig.nHeight, clsig)],
                   TRUE, 0, "")
       ELSE IF pindex.nHeight # clsig.nHeight
       THEN Result(s, FALSE, 100, "chainlock-height-mismatch")
       ELSE IF ~w.ok THEN Result(s, FALSE, 0, "")
       ELSE Result([s EXCEPT !.db = w.db,
                             !.bestChainLock = clsig,
                             !.bestChainLockBlockIndex = pindex,
                             !.pendingChainLocks = MapErase(s.pendingChainLocks, clsig.nHeight),
                             !.signingHeights = s.signingHeights \ {clsig.nHeight}],
                   TRUE, 0, "")

MsgHash(requestId, hash) == <<"msg", requestId, hash>>

\* TrySignChainLock once the height is marked as being signed
SignAndProcess(s1, pindex, requestId, msgHash) ==
    The({IF ~a.ok
         THEN [s |-> [a.s EXCEPT !.signingHeights = a.s.signingHeights \ {pindex.nHeight}],
               ok |-> FALSE]
         ELSE The({IF rec.ok
                   THEN [s |-> ProcessChainLock(
                                  a.s, CChainLockSig(pindex.nHeight, GetBlockHash(pindex),
                                                     rec.recSig.sig)).s,
                         ok |-> TRUE]
                   ELSE [s |-> a.s, ok |-> TRUE] :
                   rec \in {TryRecoverSignature(a.s, activeQuorums[CHAINLOCK_QUORUM_TYPE],
                                                CHAINLOCK_QUORUM_TYPE, requestId, msgHash)}}) :
         a \in {AsyncSign(s1, activeQuorums[CHAINLOCK_QUORUM_TYPE],
                          CHAINLOCK_QUORUM_TYPE, requestId, msgHash)}})

TrySignChainLock(s, pindex) ==
    IF pindex = nullptr \/ pindex.nHeight < CHAINLOCK_ACTIVATION_HEIGHT
    THEN [s |-> s, ok |-> FALSE]
    ELSE IF IsChainLocked(s.db, pindex.nHeight) THEN [s |-> s, ok |-> TRUE]
    ELSE IF pindex.nHeight \in s.signingHeights THEN [s |-> s, ok |-> FALSE]
    ELSE The({SignAndProcess(s1, pindex,
                             CChainLocksManager_CreateRequestId(pindex.nHeight),
                             MsgHash(CChainLocksManager_CreateRequestId(pindex.nHeight),
                                     GetBlockHash(pindex))) :
              s1 \in {[s EXCEPT !.signingHeights = s.signingHeights \cup {pindex.nHeight}]}})

IsChainLockActive == tip.nHeight >= CHAINLOCK_ACTIVATION_HEIGHT

ProcessNewBlock(s, pindex) ==
    IF ~IsChainLockActive THEN s
    ELSE IF pindex = nullptr THEN s
    ELSE IF pindex # tip THEN s
    ELSE TrySignChainLock(s, pindex).s

\* the validation hook: looks up whether the block's height is chain-locked
\* and accepts the block either way (the comparison of the block hash with
\* the lock is not written)
CheckAgainstChainLocks(pindex) ==
    IF pindex = nullptr THEN TRUE
    ELSE IF IsChainLocked(chainLocksManager.db, pindex.nHeight) THEN TRUE
    ELSE TRUE

CanReorgAt_NoCheck(db, pindexNew, pindexOld) == TRUE

CanReorgAt(db, pindexNew, pindexOld) ==
    LET pindexFork == LastCommonAncestor(pindexNew, pindexOld)
    IN IF pindexNew = nullptr \/ pindexOld = nullptr THEN TRUE
       ELSE IF pindexFork = nullptr THEN TRUE
       ELSE IF pindexFork.nHeight < GetBestChainLockHeight(db) THEN FALSE
       ELSE TRUE

CanReorg_Inclusive(pindexNew, pindexOld) ==
    LET pindexFork == LastCommonAncestor(pindexNew, pindexOld)
    IN IF pindexNew = nullptr \/ pindexOld = nullptr THEN TRUE
       ELSE IF pindexFork = nullptr THEN TRUE
       ELSE IF pindexFork.nHeight <= GetBestChainLockHeight(chainLocksManager.db) THEN FALSE
       ELSE TRUE

CanReorg(pindexNew, pindexOld) == CanReorgAt(chainLocksManager.db, pindexNew, pindexOld)

\* One pass over pendingChainLocks (heights in ascending order).  When
\* ProcessChainLock stores the lock it erases the very map entry the loop
\* iterator points to, and the loop then erases through the stale iterator:
\* undefined behaviour, modelled by ub as either carrying on as if the second
\* erase had found nothing ("continue") or aborting the process ("abort").
RECURSIVE RetryPending(_, _, _)
RetryPending(s, heights, ub) ==
    IF Len(heights) = 0 THEN [s |-> s, crashed |-> FALSE]
    ELSE LET h == Head(heights)
             clsig == s.pendingChainLocks[h]
             blockIndex == LookupBlockIndex(clsig.blockHash)
         IN IF blockIndex # nullptr /\ blockIndex.nHeight = clsig.nHeight
            THEN The({IF r.s.db # s.db /\ ub = "abort"
                      THEN [s |-> r.s, crashed |-> TRUE]
                      ELSE The({RetryPending(s2, Tail(heights), ub) :
                                s2 \in {[r.s EXCEPT !.pendingChainLocks =
                                           MapErase(r.s.pendingChainLocks, h)]}}) :
                      r \in {ProcessChainLock(s, clsig)}})
            ELSE RetryPending(s, Tail(heights), ub)

CChainLocksManager_UpdatedBlockTip(s, pindex, ub) ==
    The({IF r.crashed THEN r
         ELSE IF pindex # nullptr /\ pindex.nHeight >= CHAINLOCK_ACTIVATION_HEIGHT
         THEN [s |-> TrySignChainLock(r.s, pindex).s, crashed |-> FALSE]
         ELSE r :
         r \in {RetryPending(s, SortedSeq(DOMAIN s.pendingChainLocks), ub)}})

\* ------------------------------------------------------------------------
\* InstantSend manager (llmq/instantsend.cpp).  s holds the manager's fields,
\* the signing manager's fields and signLog, the record of the AsyncSign
\* calls made by the operation under way (a history field, not program
\* state).
\* ------------------------------------------------------------------------
CTransaction(k, vin) == [hash |-> <<"tx", k>>, vin |-> vin, coinbase |-> FALSE]

NullTx == [hash |-> NullHash, vin |-> <<>>, coinbase |-> FALSE]

\* time stamp of a pending request
GetTime == 0

VerifyInstantSendLock(islock) ==
    \E quorum \in {GetQuorum(INSTANTSEND_QUORUM_TYPE, islock.quorumHash)} :
       /\ islock.sig.fValid
       /\ quorum # NoQuorum
       /\ quorum.fValid
       /\ VerifyInsecure(islock.sig, quorum.quorumPublicKey,
                         CInstantSendLock_GetSignHash(islock))

\* an outpoint of inputs is locked by a lock for another txid
LockedByOther(db, inputs, txid) ==
    \E j \in 1..Len(inputs) :
       /\ IsInputLocked(db, inputs[j])
       /\ GetLockForInput(db, inputs[j]).ok
       /\ GetLockForInput(db, inputs[j]).islock.txid # txid

HasConflictingLock(db, tx) == LockedByOther(db, tx.vin, tx.hash)

ProcessInstantSendLock_NoConflictCheck(s, islock) ==
    IF IsTxLocked(s.db, islock.txid) THEN Result(s, TRUE, 0, "")
    ELSE IF ~VerifyInstantSendLock(islock)
    THEN Result(s, FALSE, 100, "bad-islock-sig")
    ELSE Result([s EXCEPT !.db = WriteLock(s.db, islock),
                          !.pendingTxs = MapErase(s.pendingTxs, islock.txid),
                          !.pendingRequests = MapErase(s.pendingRequests, islock.txid)],
                TRUE, 0, "")

ProcessInstantSendLock_ConflictIgnored(s, islock) ==
    IF LockedByOther(s.db, islock.inputs, islock.txid) THEN Result(s, TRUE, 0, "")
    ELSE ProcessInstantSendLock_NoConflictCheck(s, islock)

ProcessInstantSendLock(s, islock) ==
    IF IsTxLocked(s.db, islock.txid) THEN Result(s, TRUE, 0, "")
    ELSE IF ~VerifyInstantSendLock(islock)
    THEN Result(s, FALSE, 100, "bad-islock-sig")
    ELSE IF LockedByOther(s.db, islock.inputs, islock.txid)
    THEN Result(s, FALSE, 100, "islock-conflict")
    ELSE Result([s EXCEPT !.db = WriteLock(s.db, islock),
                          !.pendingTxs = MapErase(s.pendingTxs, islock.txid),
                          !.pendingRequests = MapErase(s.pendingRequests, islock.txid)],
                TRUE, 0, "")

IsInstantSendEnabled == Len(activeQuorums[INSTANTSEND_QUORUM_TYPE]) > 0

CanTxBeLocked(tx) ==
    /\ tx # NullTx
    /\ ~tx.coinbase
    /\ Len(tx.vin) <= INSTANTSEND_MAX_INPUTS

\* std::sort of the outpoints
RECURSIVE InsertSorted(_, _)
InsertSorted(x, sq) ==
    IF Len(sq) = 0 THEN <<x>>
    ELSE IF x[2] <= Head(sq)[2] THEN <<x>> \o sq
    ELSE <<Head(sq)>> \o InsertSorted(x, Tail(sq))

RECURSIVE SortInputs(_)
SortInputs(inputs) ==
    IF Len(inputs) = 0 THEN <<>>
    ELSE InsertSorted(Head(inputs), SortInputs(Tail(inputs)))

CInstantSendManager_CreateRequestId(inputs) == <<"islock_request", SortInputs(inputs)>>

\* TrySignInstantSendLock from the AsyncSign call on
SignAndProcessLock(s1, tx, requestId, msgHash) ==
    The({IF ~a.ok THEN [s |-> a.s, ok |-> FALSE]
         ELSE The({IF rec.ok
                   THEN [s |-> ProcessInstantSendLock(
                                  a.s, CInstantSendLock(tx.vin, tx.hash,
                                                        rec.recSig.quorumHash,
                                                        rec.recSig.sig)).s,
                         ok |-> TRUE]
                   ELSE [s |-> a.s, ok |-> TRUE] :
                   rec \in {TryRecoverSignature(a.s, activeQuorums[INSTANTSEND_QUORUM_TYPE],
                                                INSTANTSEND_QUORUM_TYPE, requestId, msgHash)}}) :
         a \in {AsyncSign(s1, activeQuorums[INSTANTSEND_QUORUM_TYPE],
                          INSTANTSEND_QUORUM_TYPE, requestId, msgHash)}})

TrySignInstantSendLock(s, tx) ==
    IF s.myProTxHash = NullHash THEN [s |-> s, ok |-> FALSE]
    ELSE The({SignAndProcessLock(s1, tx,
                                 CInstantSendManager_CreateRequestId(tx.vin),
                                 MsgHash(CInstantSendManager_CreateRequestId(tx.vin), tx.hash)) :
              s1 \in {[s EXCEPT !.signLog =
                         Append(s.signLog,
                                [txid |-> tx.hash,
                                 conflicting |-> HasConflictingLock(s.db, tx)])]}})

SignLockRequest(s, tx) == TrySignInstantSendLock(s, tx)

\* One pass over pendingTxs (in key order).  If the signing attempt stores a
\* lock, ProcessInstantSendLock erases the map entry the loop iterator points
\* to and the loop then increments the stale iterator: undefined behaviour,
\* modelled by ub as either carrying on with the next key ("continue") or
\* aborting the process ("abort").
RECURSIVE RetryPendingTxs(_, _, _)
RetryPendingTxs(s, keys, ub) ==
    IF Len(keys) = 0 THEN [s |-> s, crashed |-> FALSE]
    ELSE IF ~CanTxBeLocked(s.pendingTxs[<<"tx", Head(keys)>>])
            \/ HasConflictingLock(s.db, s.pendingTxs[<<"tx", Head(keys)>>])
    THEN The({RetryPendingTxs(s2, Tail(keys), ub) :
              s2 \in {[s EXCEPT !.pendingTxs = MapErase(s.pendingTxs, <<"tx", Head(keys)>>)]}})
    ELSE The({IF <<"tx", Head(keys)>> \notin DOMAIN r.s.pendingTxs /\ ub = "abort"
              THEN [s |-> r.s, crashed |-> TRUE]
              ELSE RetryPendingTxs(r.s, Tail(keys), ub) :
              r \in {TrySignInstantSendLock(s, s.pendingTxs[<<"tx", Head(keys)>>])}})

\* the block-connect hook: forgets the pending entries of the block's
\* transactions and accepts the block
CInstantSendManager_ProcessBlock(s, block) ==
    LET included == {block.vtx[j].hash : j \in 1..Len(block.vtx)}
    IN Result([s EXCEPT !.pendingTxs = MapEraseAll(s.pendingTxs, included),
                        !.pendingRequests = MapEraseAll(s.pendingRequests, included)],
              TRUE, 0, "")

CInstantSendManager_UpdatedBlockTip(s, ub) ==
    RetryPendingTxs(s, SortedSeq({k[2] : k \in DOMAIN s.pendingTxs}), ub)

\* ------------------------------------------------------------------------
\* Deterministic masternode list (evo/deterministicmns.h, .cpp)
\* ------------------------------------------------------------------------
MAX_CACHE_SIZE == 100

TRANSACTION_PROVIDER_REGISTER == 1

TRANSACTION_PROVIDER_UPDATE_SERVICE == 2

TRANSACTION_PROVIDER_UPDATE_REGISTRAR == 3

TRANSACTION_PROVIDER_UPDATE_REVOKE == 4

CURRENT_VERSION == 1

REASON_CHANGE_OF_KEYS == 3

\* uint256 comparison, the key order of the std::maps.  Hash values are
\* unrelated to heights; the model fixes one order: transaction hashes sort
\* by their number, block hashes of side branches sort first, then the main
\* chain from the activation height on, then the older main-chain blocks.
UintOf(hash) ==
    IF hash[1] = "tx" THEN hash[2]
    ELSE IF hash[3] > 0 THEN (hash[2] - MinHeight) + hash[3] * (HeightSpan + 2)
    ELSE IF hash[2] > MinHeight THEN 1000 + (hash[2] - MinHeight)
    ELSE 2000 + hash[2]

\* begin() of a std::map keyed by uint256
FirstKey(keys) == CHOOSE k \in keys : \A j \in keys : UintOf(k) <= UintOf(j)

CService(n) == <<"addr", n>>

CKeyID(n) == <<"keyid", n>>

\* a public key of the given byte length; the empty vector is <<>>
OperatorPubKey(n, size) == <<"blspk", n, size>>

KeySize(vch) == IF vch = <<>> THEN 0 ELSE vch[3]

CDeterministicMNState ==
    [nRegisteredHeight |-> -1, nLastPaidHeight |-> 0, nPoSePenalty |-> 0,
     nPoSeRevivedHeight |-> -1, nPoSeBanHeight |-> -1, nRevocationReason |-> 0,
     keyIDOwner |-> CKeyID(0), vchOperatorPubKey |-> <<>>, keyIDVoting |-> CKeyID(0),
     addr |-> CService(0), scriptPayout |-> <<>>, scriptOperatorPayout |-> <<>>]

\* a default-constructed entry; also stands for the null CDeterministicMNCPtr
\* (internalId -1 is the all-ones uint64)
CDeterministicMN ==
    [proTxHash |-> NullHash, collateralOutpoint |-> COutPoint(0), nOperatorReward |-> 0,
     state |-> CDeterministicMNState, internalId |-> -1]

CDeterministicMNList(blockHash, nHeight) ==
    [blockHash |-> blockHash, nHeight |-> nHeight, nTotalRegisteredCount |-> 0,
     mnMap |-> EmptyMap, mnUniquePropertyMap |-> EmptyMap]

GetMN(list, proTxHash) ==
    IF proTxHash \in DOMAIN list.mnMap THEN list.mnMap[proTxHash] ELSE CDeterministicMN

\* first entry in map order with the given collateral, or null
GetMNByCollateral(list, collateralOutpoint) ==
    LET ks == {k \in DOMAIN list.mnMap :
                  list.mnMap[k].collateralOutpoint = collateralOutpoint}
    IN  IF ks = {} THEN CDeterministicMN ELSE list.mnMap[FirstKey(ks)]

\* first entry in map order with the given service address, or null
GetMNByService(list, addr) ==
    LET ks == {k \in DOMAIN list.mnMap : list.mnMap[k].state.addr = addr}
    IN  IF ks = {} THEN CDeterministicMN ELSE list.mnMap[FirstKey(ks)]

HasUniqueProperty(list, propertyHash) == propertyHash \in DOMAIN list.mnUniquePropertyMap

\* the three overloads hash a tag and the value; the values carry their own
\* kind ("out", "addr", "keyid"), which selects the tag
GetUniquePropertyHash(v) ==
    IF v[1] = "out" THEN <<"utxo", v>>
    ELSE IF v[1] = "addr" THEN <<"addr", v>>
    ELSE <<"key", v>>

AddMN(list, mn) ==
    [list EXCEPT
        !.mnMap = MapPut(@, mn.proTxHash, mn),
        !.mnUniquePropertyMap =
            MapPut(MapPut(MapPut(@, GetUniquePropertyHash(mn.collateralOutpoint),
                                 mn.proTxHash),
                          GetUniquePropertyHash(mn.state.addr), mn.proTxHash),
                   GetUniquePropertyHash(mn.state.keyIDOwner), mn.proTxHash),
        !.nTotalRegisteredCount = @ + 1]

UpdateMN(list, proTxHash, newState) ==
    LET mn == GetMN(list, proTxHash)
    IN  IF mn = CDeterministicMN THEN list
        ELSE [list EXCEPT
                 !.mnUniquePropertyMap =
                     IF mn.state.addr # newState.addr
                     THEN MapPut(MapErase(@, GetUniquePropertyHash(mn.state.addr)),
                                 GetUniquePropertyHash(newState.addr), proTxHash)
                     ELSE @,
                 !.mnMap = MapPut(@, proTxHash, [mn EXCEPT !.state = newState])]

\* READWRITE of the list, its entries and their state, field by field; the
\* entries of a map are written in key order and inserted again by the
\* reader, so the model keeps them as a set of <<key, value>> pairs
SerializeMNList(list) ==
    LET st(s) == <<s.nRegisteredHeight, s.nLastPaidHeight, s.nPoSePenalty,
                   s.nPoSeRevivedHeight, s.nPoSeBanHeight, s.nRevocationReason,
                   s.keyIDOwner, s.vchOperatorPubKey, s.keyIDVoting, s.addr,
                   s.scriptPayout, s.scriptOperatorPayout>>
        mn(e) == <<e.proTxHash, e.collateralOutpoint, e.nOperatorReward, st(e.state),
                   e.internalId>>
    IN  <<list.blockHash, list.nHeight, list.nTotalRegisteredCount,
          {<<k, mn(list.mnMap[k])>> : k \in DOMAIN list.mnMap},
          {<<k, list.mnUniquePropertyMap[k]>> : k \in DOMAIN list.mnUniquePropertyMap}>>

\* a reader that stops after the block hash and the height
UnserializeMNList_HeaderOnly(data) ==
    [blockHash |-> data[1], nHeight |-> data[2], nTotalRegisteredCount |-> 0,
     mnMap |-> EmptyMap, mnUniquePropertyMap |-> EmptyMap]

UnserializeMNList(data) ==
    LET st(s) == [nRegisteredHeight |-> s[1], nLastPaidHeight |-> s[2],
                  nPoSePenalty |-> s[3], nPoSeRevivedHeight |-> s[4],
                  nPoSeBanHeight |-> s[5], nRevocationReason |-> s[6],
                  keyIDOwner |-> s[7], vchOperatorPubKey |-> s[8],
                  keyIDVoting |-> s[9], addr |-> s[10], scriptPayout |-> s[11],
                  scriptOperatorPayout |-> s[12]]
        mn(e) == [proTxHash |-> e[1], collateralOutpoint |-> e[2],
                  nOperatorReward |-> e[3], state |-> st(e[4]), internalId |-> e[5]]
        val(pairs, k) == The({p[2] : p \in {q \in pairs : q[1] = k}})
    IN  [blockHash |-> data[1], nHeight |-> data[2], nTotalRegisteredCount |-> data[3],
         mnMap |-> [k \in {p[1] : p \in data[4]} |-> mn(val(data[4], k))],
         mnUniquePropertyMap |-> [k \in {p[1] : p \in data[5]} |-> val(data[5], k)]]

\* ------------------------------------------------------------------------
\* Provider transactions and their checks (evo/providertx.cpp)
\* ------------------------------------------------------------------------
IsTxTypeSpecial(tx) == tx.nVersion >= 3 /\ tx.nType # 0

\* hash over the prevouts of the inputs
CalcInputsHash(tx) == <<"inputs", tx.vin>>

\* hash of the payload serialized without vchSig
GetSignatureHash(proTx) == <<"sighash", [proTx EXCEPT !.vchSig = <<>>]>>

\* a compact signature names the key it recovers to and the hash it signs
CheckSignature(proTx, keyID) == proTx.vchSig = <<"sig", keyID, GetSignatureHash(proTx)>>

IsPayToHash(script) == script # <<>> /\ script[1] \in {"p2pkh", "p2sh"}

\* CDeterministicMNManager::SaveListToDb through CEvoDB::Write with no
\* transaction open
SaveListToDb(m, list) ==
    [m EXCEPT !.evoDb = MapPut(@, <<"dmn_S", list.blockHash>>, SerializeMNList(list))]

\* <<list>> when the database has the snapshot, <<>> (null) when not
LoadListFromDb(m, blockHash) ==
    IF <<"dmn_S", blockHash>> \in DOMAIN m.evoDb
    THEN <<UnserializeMNList(m.evoDb[<<"dmn_S", blockHash>>])>>
    ELSE <<>>

RECURSIVE CleanupCache(_)
CleanupCache(m) ==
    IF Cardinality(DOMAIN m.mnListsCache) > MAX_CACHE_SIZE
    THEN CleanupCache([m EXCEPT !.mnListsCache = MapErase(@, FirstKey(DOMAIN @))])
    ELSE m

\* returns the manager (the cache may have taken the snapshot read from the
\* database) and the list
GetListForBlock(m, pindex) ==
    IF pindex = nullptr THEN [m |-> m, list |-> CDeterministicMNList(NullHash, -1)]
    ELSE IF GetBlockHash(pindex) \in DOMAIN m.mnListsCache
    THEN [m |-> m, list |-> m.mnListsCache[GetBlockHash(pindex)]]
    ELSE The({IF ld # <<>>
              THEN [m |-> [m EXCEPT !.mnListsCache =
                                        MapPut(@, GetBlockHash(pindex), ld[1])],
                    list |-> ld[1]]
              ELSE [m |-> m,
                    list |-> CDeterministicMNList(GetBlockHash(pindex), pindex.nHeight)]
              : ld \in {LoadListFromDb(m, GetBlockHash(pindex))}})

CDeterministicMNManager_GetMN(m, proTxHash) ==
    IF m.tipList = <<>> THEN CDeterministicMN ELSE GetMN(m.tipList[1], proTxHash)

CheckProRegTx(m, tx, pindexPrev) ==
    LET proTx == tx.vExtraPayload
        Duplicates(g) ==
            IF HasUniqueProperty(g.list, GetUniquePropertyHash(proTx.addr))
            THEN Result(g.m, FALSE, 100, "bad-protx-dup-addr")
            ELSE IF HasUniqueProperty(g.list, GetUniquePropertyHash(proTx.keyIDOwner))
            THEN Result(g.m, FALSE, 100, "bad-protx-dup-owner-key")
            ELSE IF GetMNByCollateral(g.list, proTx.collateralOutpoint) # CDeterministicMN
            THEN Result(g.m, FALSE, 100, "bad-protx-dup-collateral")
            ELSE Result(g.m, TRUE, 0, "")
    IN  IF tx.nType # TRANSACTION_PROVIDER_REGISTER
        THEN Result(m, FALSE, 100, "bad-protx-type")
        ELSE IF proTx.kind # "CProRegTx" THEN Result(m, FALSE, 100, "bad-protx-payload")
        ELSE IF proTx.nVersion # CURRENT_VERSION
        THEN Result(m, FALSE, 100, "bad-protx-version")
        ELSE IF proTx.nMode # 0 THEN Result(m, FALSE, 100, "bad-protx-mode")
        ELSE IF proTx.nOperatorReward > 10000
        THEN Result(m, FALSE, 100, "bad-protx-operator-reward")
        ELSE IF proTx.addr[2] = 0 THEN Result(m, FALSE, 10, "bad-protx-addr")
        ELSE IF proTx.addr[2] < 0 THEN Result(m, FALSE, 10, "bad-protx-addr-not-routable")
        ELSE IF KeySize(proTx.vchOperatorPubKey) # 48
        THEN Result(m, FALSE, 100, "bad-protx-operator-key-size")
        ELSE IF ~IsPayToHash(proTx.scriptPayout)
        THEN Result(m, FALSE, 100, "bad-protx-payout-script")
        ELSE IF CalcInputsHash(tx) # proTx.inputsHash
        THEN Result(m, FALSE, 100, "bad-protx-inputs-hash")
        ELSE IF ~CheckSignature(proTx, proTx.keyIDOwner)
        THEN Result(m, FALSE, 100, "bad-protx-sig")
        ELSE IF pindexPrev = nullptr THEN Result(m, TRUE, 0, "")
        ELSE The({Duplicates(g) : g \in {GetListForBlock(m, pindexPrev)}})

CheckProUpServTx(m, tx, pindexPrev) ==
    LET proTx == tx.vExtraPayload
        Conflict(g) ==
            LET existingMN == GetMNByService(g.list, proTx.addr)
            IN  IF existingMN # CDeterministicMN /\ existingMN.proTxHash # proTx.proTxHash
                THEN Result(g.m, FALSE, 100, "bad-protx-dup-addr")
                ELSE IF proTx.vchSig = <<>> THEN Result(g.m, FALSE, 100, "bad-protx-sig")
                ELSE Result(g.m, TRUE, 0, "")
    IN  IF tx.nType # TRANSACTION_PROVIDER_UPDATE_SERVICE
        THEN Result(m, FALSE, 100, "bad-protx-type")
        ELSE IF proTx.kind # "CProUpServTx" THEN Result(m, FALSE, 100, "bad-protx-payload")
        ELSE IF proTx.nVersion # CURRENT_VERSION
        THEN Result(m, FALSE, 100, "bad-protx-version")
        ELSE IF proTx.addr[2] = 0 THEN Result(m, FALSE, 10, "bad-protx-addr")
        ELSE IF proTx.addr[2] < 0 THEN Result(m, FALSE, 10, "bad-protx-addr-not-routable")
        ELSE IF CalcInputsHash(tx) # proTx.inputsHash
        THEN Result(m, FALSE, 100, "bad-protx-inputs-hash")
        ELSE IF pindexPrev = nullptr THEN Result(m, TRUE, 0, "")
        ELSE IF CDeterministicMNManager_GetMN(m, proTx.proTxHash) = CDeterministicMN
        THEN Result(m, FALSE, 100, "bad-protx-hash")
        ELSE The({Conflict(g) : g \in {GetListForBlock(m, pindexPrev)}})

CheckProUpRegTx(m, tx, pindexPrev) ==
    LET proTx == tx.vExtraPayload
        mn == CDeterministicMNManager_GetMN(m, proTx.proTxHash)
    IN  IF tx.nType # TRANSACTION_PROVIDER_UPDATE_REGISTRAR
        THEN Result(m, FALSE, 100, "bad-protx-type")
        ELSE IF proTx.kind # "CProUpRegTx" THEN Result(m, FALSE, 100, "bad-protx-payload")
        ELSE IF proTx.nVersion # CURRENT_VERSION
        THEN Result(m, FALSE, 100, "bad-protx-version")
        ELSE IF proTx.vchOperatorPubKey # <<>> /\ KeySize(proTx.vchOperatorPubKey) # 48
        THEN Result(m, FALSE, 100, "bad-protx-operator-key-size")
        ELSE IF proTx.scriptPayout # <<>> /\ ~IsPayToHash(proTx.scriptPayout)
        THEN Result(m, FALSE, 100, "bad-protx-payout-script")
        ELSE IF CalcInputsHash(tx) # proTx.inputsHash
        THEN Result(m, FALSE, 100, "bad-protx-inputs-hash")
        ELSE IF pindexPrev = nullptr THEN Result(m, TRUE, 0, "")
        ELSE IF mn = CDeterministicMN THEN Result(m, FALSE, 100, "bad-protx-hash")
        ELSE IF ~CheckSignature(proTx, mn.state.keyIDOwner)
        THEN Result(m, FALSE, 100, "bad-protx-sig")
        ELSE Result(m, TRUE, 0, "")

CheckProUpRevTx(m, tx, pindexPrev) ==
    LET proTx == tx.vExtraPayload
    IN  IF tx.nType # TRANSACTION_PROVIDER_UPDATE_REVOKE
        THEN Result(m, FALSE, 100, "bad-protx-type")
        ELSE IF proTx.kind # "CProUpRevTx" THEN Result(m, FALSE, 100, "bad-protx-payload")
        ELSE IF proTx.nVersion # CURRENT_VERSION
        THEN Result(m, FALSE, 100, "bad-protx-version")
        ELSE IF proTx.nReason > REASON_CHANGE_OF_KEYS
        THEN Result(m, FALSE, 100, "bad-protx-reason")
        ELSE IF CalcInputsHash(tx) # proTx.inputsHash
        THEN Result(m, FALSE, 100, "bad-protx-inputs-hash")
        ELSE IF pindexPrev = nullptr THEN Result(m, TRUE, 0, "")
        ELSE IF CDeterministicMNManager_GetMN(m, proTx.proTxHash) = CDeterministicMN
        THEN Result(m, FALSE, 100, "bad-protx-hash")
        ELSE IF proTx.vchSig = <<>> THEN Result(m, FALSE, 100, "bad-protx-sig")
        ELSE Result(m, TRUE, 0, "")

CheckSpecialTx(m, tx, pindexPrev) ==
    IF ~IsTxTypeSpecial(tx) THEN Result(m, TRUE, 0, "")
    ELSE CASE tx.nType = TRANSACTION_PROVIDER_REGISTER -> CheckProRegTx(m, tx, pindexPrev)
           [] tx.nType = TRANSACTION_PROVIDER_UPDATE_SERVICE ->
                  CheckProUpServTx(m, tx, pindexPrev)
           [] tx.nType = TRANSACTION_PROVIDER_UPDATE_REGISTRAR ->
                  CheckProUpRegTx(m, tx, pindexPrev)
           [] tx.nType = TRANSACTION_PROVIDER_UPDATE_REVOKE ->
                  CheckProUpRevTx(m, tx, pindexPrev)
           [] OTHER -> Result(m, FALSE, 100, "bad-tx-type-unknown")

\* ------------------------------------------------------------------------
\* Deterministic masternode manager (evo/deterministicmns.cpp)
\* ------------------------------------------------------------------------
\* the copy loop of ProcessBlock: every entry of the previous list is added
\* to the new list in map order
RECURSIVE CopyMNs(_, _, _)
CopyMNs(newList, mnMap, keys) ==
    IF keys = {} THEN newList
    ELSE CopyMNs(AddMN(newList, mnMap[FirstKey(keys)]), mnMap, keys \ {FirstKey(keys)})

\* the transaction loop of ProcessBlock
RECURSIVE ProcessBlockTxs(_, _, _)
ProcessBlockTxs(newList, vtx, nHeight) ==
    LET tx == Head(vtx)
        proTx == tx.vExtraPayload
        mn == GetMN(newList, proTx.proTxHash)
        Register ==
            IF proTx.kind # "CProRegTx"
            THEN Result(newList, FALSE, 100, "bad-protx-payload")
            ELSE Result(
                   AddMN([newList EXCEPT !.nTotalRegisteredCount = @ + 1],
                         [proTxHash |-> tx.hash,
                          collateralOutpoint |-> proTx.collateralOutpoint,
                          nOperatorReward |-> proTx.nOperatorReward,
                          state |-> [CDeterministicMNState EXCEPT
                                        !.nRegisteredHeight = nHeight,
                                        !.keyIDOwner = proTx.keyIDOwner,
                                        !.vchOperatorPubKey = proTx.vchOperatorPubKey,
                                        !.keyIDVoting = proTx.keyIDVoting,
                                        !.addr = proTx.addr,
                                        !.scriptPayout = proTx.scriptPayout],
                          internalId |-> newList.nTotalRegisteredCount]),
                   TRUE, 0, "")
        UpdateService ==
            IF proTx.kind # "CProUpServTx"
            THEN Result(newList, FALSE, 100, "bad-protx-payload")
            ELSE IF mn = CDeterministicMN THEN Result(newList, FALSE, 100, "bad-protx-hash")
            ELSE Result(
                   UpdateMN(newList, proTx.proTxHash,
                            [mn.state EXCEPT
                                !.addr = proTx.addr,
                                !.scriptOperatorPayout =
                                    IF proTx.scriptOperatorPayout # <<>>
                                    THEN proTx.scriptOperatorPayout ELSE @]),
                   TRUE, 0, "")
        UpdateRegistrar ==
            IF proTx.kind # "CProUpRegTx"
            THEN Result(newList, FALSE, 100, "bad-protx-payload")
            ELSE IF mn = CDeterministicMN THEN Result(newList, FALSE, 100, "bad-protx-hash")
            ELSE Result(
                   UpdateMN(newList, proTx.proTxHash,
                            [mn.state EXCEPT
                                !.vchOperatorPubKey =
                                    IF proTx.vchOperatorPubKey # <<>>
                                    THEN proTx.vchOperatorPubKey ELSE @,
                                !.keyIDVoting =
                                    IF proTx.keyIDVoting # CKeyID(0)
                                    THEN proTx.keyIDVoting ELSE @,
                                !.scriptPayout =
                                    IF proTx.scriptPayout # <<>>
                                    THEN proTx.scriptPayout ELSE @,
                                !.nPoSePenalty =
                                    IF proTx.vchOperatorPubKey # mn.state.vchOperatorPubKey
                                    THEN 0 ELSE @,
                                !.nPoSeBanHeight =
                                    IF proTx.vchOperatorPubKey # mn.state.vchOperatorPubKey
                                    THEN -1 ELSE @,
                                !.nPoSeRevivedHeight =
                                    IF proTx.vchOperatorPubKey # mn.state.vchOperatorPubKey
                                    THEN nHeight ELSE @]),
                   TRUE, 0, "")
        UpdateRevoke ==
            IF proTx.kind # "CProUpRevTx"
            THEN Result(newList, FALSE, 100, "bad-protx-payload")
            ELSE IF mn = CDeterministicMN THEN Result(newList, FALSE, 100, "bad-protx-hash")
            ELSE Result(
                   UpdateMN(newList, proTx.proTxHash,
                            [mn.state EXCEPT !.nRevocationReason = proTx.nReason,
                                             !.nPoSeBanHeight = nHeight]),
                   TRUE, 0, "")
        Switch ==
            IF ~IsTxTypeSpecial(tx) THEN Result(newList, TRUE, 0, "")
            ELSE CASE tx.nType = TRANSACTION_PROVIDER_REGISTER -> Register
                   [] tx.nType = TRANSACTION_PROVIDER_UPDATE_SERVICE -> UpdateService
                   [] tx.nType = TRANSACTION_PROVIDER_UPDATE_REGISTRAR -> UpdateRegistrar
                   [] tx.nType = TRANSACTION_PROVIDER_UPDATE_REVOKE -> UpdateRevoke
                   [] OTHER -> Result(newList, TRUE, 0, "")
    IN  IF vtx = <<>> THEN Result(newList, TRUE, 0, "")
        ELSE The({IF r.ok THEN ProcessBlockTxs(r.s, Tail(vtx), nHeight) ELSE r
                  : r \in {Switch}})

ProcessBlock(m, block, pindex, fJustCheck) ==
    LET Store(mgr, newList) ==
            CleanupCache(SaveListToDb(
                [mgr EXCEPT !.mnListsCache = MapPut(@, GetBlockHash(pindex), newList),
                            !.tipList = <<newList>>],
                newList))
        Finish(mgr, r) ==
            IF ~r.ok THEN Result(mgr, FALSE, r.nDoS, r.reason)
            ELSE IF fJustCheck THEN Result(mgr, TRUE, 0, "")
            ELSE Result(Store(mgr, r.s), TRUE, 0, "")
        Build(g) ==
            The({Finish(g.m, r)
                 : r \in {ProcessBlockTxs(
                              CopyMNs(CDeterministicMNList(GetBlockHash(pindex),
                                                           pindex.nHeight),
                                      g.list.mnMap, DOMAIN g.list.mnMap),
                              block.vtx, pindex.nHeight)}})
    IN  The({Build(g)
             : g \in {IF pprev(pindex) # nullptr THEN GetListForBlock(m, pprev(pindex))
                      ELSE [m |-> m, list |-> CDeterministicMNList(NullHash, -1)]}})

UndoBlock(m, pindex) ==
    The({IF pprev(pindex) # nullptr
         THEN The({[g.m EXCEPT !.tipList = <<g.list>>]
                   : g \in {GetListForBlock(erased, pprev(pindex))}})
         ELSE [erased EXCEPT !.tipList = <<CDeterministicMNList(NullHash, -1)>>]
         : erased \in {[m EXCEPT !.mnListsCache = MapErase(@, GetBlockHash(pindex))]}})

\* the validation loop of ProcessSpecialTxsInBlock
RECURSIVE CheckSpecialTxs(_, _, _)
CheckSpecialTxs(m, vtx, pindexPrev) ==
    IF vtx = <<>> THEN Result(m, TRUE, 0, "")
    ELSE The({IF r.ok THEN CheckSpecialTxs(r.s, Tail(vtx), pindexPrev) ELSE r
              : r \in {CheckSpecialTx(m, Head(vtx), pindexPrev)}})

ProcessSpecialTxsInBlock(m, block, pindex, fJustCheck) ==
    The({IF c.ok /\ ~fJustCheck THEN ProcessBlock(c.s, block, pindex, fJustCheck) ELSE c
         : c \in {CheckSpecialTxs(m, block.vtx, pprev(pindex))}})

UndoSpecialTxsInBlock(m, pindex) == UndoBlock(m, pindex)

\* ------------------------------------------------------------------------
\* Inputs
\* ------------------------------------------------------------------------
Heights == MinHeight..MaxHeight

InitialBlocks == {p \in AllBlocks : p.branch < NumForks}

QuorumSig(quorum, hash) ==
    AggregateSignatures([j \in 1..Len(quorum.members) |->
        Sign(OperatorSecretKey(quorum.members[j].proTxHash[2]), hash)])

\* the signature quorum members produce over a ChainLock's sign hash
SignedChainLock(quorum, nHeight, blockHash) ==
    CChainLockSig(nHeight, blockHash,
        QuorumSig(quorum, CChainLockSig_GetSignHash(CChainLockSig(nHeight, blockHash, NullSig))))

\* ChainLock messages a peer can send: every block at its own height signed
\* by quorum A, the first activated block signed by quorum B, one message
\* without signature and one whose height is not the block's
ReceivedChainLocks ==
    {SignedChainLock(QuorumA(CHAINLOCK_QUORUM_TYPE), p.nHeight, GetBlockHash(p)) :
        p \in AllBlocks}
    \cup {SignedChainLock(QuorumB(CHAINLOCK_QUORUM_TYPE), CHAINLOCK_ACTIVATION_HEIGHT,
                          GetBlockHash([nHeight |-> CHAINLOCK_ACTIVATION_HEIGHT, branch |-> 0])),
          CChainLockSig(MaxHeight, GetBlockHash([nHeight |-> MaxHeight, branch |-> 0]), NullSig),
          SignedChainLock(QuorumA(CHAINLOCK_QUORUM_TYPE), CHAINLOCK_ACTIVATION_HEIGHT,
                          GetBlockHash([nHeight |-> MaxHeight, branch |-> 0]))}

\* ChainLocks written straight into the database (no checks apply there)
WrittenChainLocks ==
    {SignedChainLock(QuorumA(CHAINLOCK_QUORUM_TYPE), p.nHeight, GetBlockHash(p)) :
        p \in AllBlocks}

ActiveQuorumLists(type) ==
    {<<>>, <<QuorumA(type).quorumHash>>,
     <<QuorumA(type).quorumHash, QuorumB(type).quorumHash>>}

\* ------------------------------------------------------------------------
\* Initial state
\* ------------------------------------------------------------------------
NoRet == [op |-> "", clsig |-> NullChainLockSig, ok |-> TRUE, nDoS |-> 0, reason |-> ""]

NoIsRet == [op |-> "", islock |-> NullInstantSendLock, tx |-> NullTx, ok |-> TRUE,
            nDoS |-> 0, reason |-> "", signLog |-> <<>>, block |-> [vtx |-> <<>>]]

\* no thread is inside ProcessTransaction
\* ------------------------------------------------------------------------
\* Lock acquisition: the locks each entry point takes, in program order
\* ------------------------------------------------------------------------
cs_main == "cs_main"

\* the cs member of each manager class
ManagerLocks ==
    {"CChainLocksManager", "CInstantSendManager", "CSigningManager", "CQuorumManager"}

\* the cs member of the lock databases, private to their manager
DbLocks == {"CChainLocksDb", "CInstantSendDb"}

Enter(l) == [lock |-> l, enter |-> TRUE]

Leave(l) == [lock |-> l, enter |-> FALSE]

\* LOCK(l) at the top of a scope whose body causes the events of body
Critical(l, body) == <<Enter(l)>> \o body \o <<Leave(l)>>

\* a method that takes its object's lock and calls nothing that locks
Leaf(l) == Critical(l, <<>>)

\* CQuorumManager::SelectQuorumForSigning: LOCK(cs), then GetActiveQuorums
SelectQuorumForSigning_Locks == Critical("CQuorumManager", Leaf("CQuorumManager"))

VerifyChainLock_Locks == Critical(cs_main, SelectQuorumForSigning_Locks)

ProcessChainLock_Locks ==
    Critical("CChainLocksManager",
             Leaf("CChainLocksDb")              \* db.HasChainLock
             \o Leaf("CChainLocksDb")           \* db.GetBestChainLockHeight
             \o VerifyChainLock_Locks
             \o Critical(cs_main,
                         Leaf("CChainLocksDb")))  \* db.WriteChainLock

AsyncSign_Locks ==
    Critical("CSigningManager",
             Critical(cs_main,
                      SelectQuorumForSigning_Locks
                      \o Leaf("CQuorumManager")))   \* GetSecretKeyShare

TryRecoverSignature_Locks ==
    Critical("CSigningManager",
             Critical(cs_main, SelectQuorumForSigning_Locks))

ProcessInstantSendLock_Locks ==
    Critical("CInstantSendManager",
             Leaf("CInstantSendDb")             \* db.IsTxLocked
             \o Leaf("CQuorumManager")          \* VerifyInstantSendLock: GetQuorum
             \o Leaf("CInstantSendDb")          \* db.IsInputLocked
             \o Leaf("CInstantSendDb"))         \* db.WriteLock

TrySignInstantSendLock_Locks ==
    Critical("CInstantSendManager",
             AsyncSign_Locks
             \o TryRecoverSignature_Locks
             \o ProcessInstantSendLock_Locks)

\* CChainLocksManager::TrySignChainLock: LOCK(cs), then the signing calls
TrySignChainLock_Locks ==
    Critical("CChainLocksManager",
             Leaf("CChainLocksDb")              \* db.IsChainLocked
             \o AsyncSign_Locks
             \o TryRecoverSignature_Locks
             \o ProcessChainLock_Locks)

\* CChainLocksManager::ProcessNewBlock: IsChainLockActive, then LOCK(cs_main)
\* held over TrySignChainLock
ProcessNewBlock_Locks ==
    Leaf(cs_main) \o Critical(cs_main, TrySignChainLock_Locks)

EntryPoints ==
    {"ProcessNewBlock", "ProcessChainLock", "AsyncSign", "TrySignInstantSendLock"}

LockTrace(op) ==
    CASE op = "ProcessNewBlock" -> ProcessNewBlock_Locks
      [] op = "ProcessChainLock" -> ProcessChainLock_Locks
      [] op = "AsyncSign" -> AsyncSign_Locks
      [] op = "TrySignInstantSendLock" -> TrySignInstantSendLock_Locks
      [] OTHER -> <<>>

NumLockThreads == 2

LockThreadIds == 1..NumLockThreads

IdleLockThread == [op |-> "", pc |-> 1, held |-> <<>>]

\* ------------------------------------------------------------------------
\* Atomic-swap order book (assets/atomicswap.h, .cpp).  Asset names are
\* strings, modelled as sequences of character codes.
\* ------------------------------------------------------------------------
\* "MYNTA"
MYNTA == <<77, 89, 78, 84, 65>>

\* "GOLD"
GOLD == <<71, 79, 76, 68>>

\* "SILVER"
SILVER == <<83, 73, 76, 86, 69, 82>>

\* ":"
Colon == <<58>>

\* std::string operator<: lexicographic order of the characters
RECURSIVE StringLess(_, _)
StringLess(a, b) ==
    IF b = <<>> THEN FALSE
    ELSE IF a = <<>> THEN TRUE
    ELSE IF Head(a) # Head(b) THEN Head(a) < Head(b)
    ELSE StringLess(Tail(a), Tail(b))

\* the key without the alphabetical sort
GetTradingPairKey_Unsorted(assetA, assetB) ==
    (IF assetA = <<>> THEN MYNTA ELSE assetA) \o Colon
        \o (IF assetB = <<>> THEN MYNTA ELSE assetB)

GetTradingPairKey(assetA, assetB) ==
    LET a == IF assetA = <<>> THEN MYNTA ELSE assetA
        b == IF assetB = <<>> THEN MYNTA ELSE assetB
    IN  IF StringLess(b, a) THEN b \o Colon \o a ELSE a \o Colon \o b

CAtomicSwapOffer(k, makerAssetName, takerAssetName, timeoutBlocks, createdHeight) ==
    [offerHash |-> <<"offer", k>>, makerAssetName |-> makerAssetName,
     takerAssetName |-> takerAssetName, timeoutBlocks |-> timeoutBlocks,
     createdHeight |-> createdHeight, isActive |-> TRUE, isFilled |-> FALSE,
     fillTxHash |-> NullHash]

\* expiry that starts one block late
IsExpired_Late(offer, currentHeight) ==
    currentHeight > offer.createdHeight + offer.timeoutBlocks

IsExpired(offer, currentHeight) ==
    currentHeight >= offer.createdHeight + offer.timeoutBlocks

\* the database keys {'O' | offerHash}, {'U' | offerHash} and {'H'}
DB_OFFER(offerHash) == <<"O", offerHash>>

DB_UTXO(offerHash) == <<"U", offerHash>>

DB_HEIGHT == <<"H">>

EmptyOrderBook ==
    [offers |-> EmptyMap, offersByPair |-> EmptyMap, offerUTXOs |-> EmptyMap,
     currentHeight |-> 0, db |-> EmptyMap]

\* offersByPair[pairKey]: operator[] of the map, which yields an empty set
\* for a key without entry
Bucket(ob, pairKey) ==
    IF pairKey \in DOMAIN ob.offersByPair THEN ob.offersByPair[pairKey] ELSE {}

AddOffer(ob, offer, fundingUTXO) ==
    IF offer.offerHash \in DOMAIN ob.offers THEN [s |-> ob, ok |-> FALSE]
    ELSE LET pairKey == GetTradingPairKey(offer.makerAssetName, offer.takerAssetName)
         IN  [s |-> [ob EXCEPT
                        !.db = MapPut(MapPut(@, DB_OFFER(offer.offerHash), offer),
                                      DB_UTXO(offer.offerHash), fundingUTXO),
                        !.offers = MapPut(@, offer.offerHash, offer),
                        !.offersByPair =
                            MapPut(@, pairKey, Bucket(ob, pairKey) \cup {offer.offerHash}),
                        !.offerUTXOs = MapPut(@, offer.offerHash, fundingUTXO)],
              ok |-> TRUE]

\* RemoveOffer that leaves the funding outpoint of the offer in place
RemoveOffer_KeepUTXO(ob, offerHash) ==
    IF offerHash \notin DOMAIN ob.offers THEN [s |-> ob, ok |-> FALSE]
    ELSE LET offer == ob.offers[offerHash]
             pairKey == GetTradingPairKey(offer.makerAssetName, offer.takerAssetName)
         IN  [s |-> [ob EXCEPT
                        !.db = MapErase(MapErase(@, DB_OFFER(offerHash)),
                                        DB_UTXO(offerHash)),
                        !.offersByPair =
                            MapPut(@, pairKey, Bucket(ob, pairKey) \ {offerHash}),
                        !.offers = MapErase(@, offerHash)],
              ok |-> TRUE]

RemoveOffer(ob, offerHash) ==
    IF offerHash \notin DOMAIN ob.offers THEN [s |-> ob, ok |-> FALSE]
    ELSE LET offer == ob.offers[offerHash]
             pairKey == GetTradingPairKey(offer.makerAssetName, offer.takerAssetName)
         IN  [s |-> [ob EXCEPT
                        !.db = MapErase(MapErase(@, DB_OFFER(offerHash)),
                                        DB_UTXO(offerHash)),
                        !.offersByPair =
                            MapPut(@, pairKey, Bucket(ob, pairKey) \ {offerHash}),
                        !.offerUTXOs = MapErase(@, offerHash),
                        !.offers = MapErase(@, offerHash)],
              ok |-> TRUE]

MarkOfferFilled(ob, offerHash, fillTxHash) ==
    IF offerHash \notin DOMAIN ob.offers THEN [s |-> ob, ok |-> FALSE]
    ELSE LET filled == [ob.offers[offerHash] EXCEPT
                           !.isActive = FALSE, !.isFilled = TRUE,
                           !.fillTxHash = fillTxHash]
         IN  [s |-> [ob EXCEPT !.offers = MapPut(@, offerHash, filled),
                               !.db = MapPut(@, DB_OFFER(offerHash), filled)],
              ok |-> TRUE]

\* the loop over offerUTXOs for one input: every offer funded by prevout is
\* marked (the offers are distinct, so the order of the map does not matter)
RECURSIVE MarkSpent(_, _, _, _)
MarkSpent(ob, offerHashes, prevout, txHash) ==
    IF offerHashes = {} THEN ob
    ELSE LET h == CHOOSE x \in offerHashes : TRUE
         IN  MarkSpent(IF ob.offerUTXOs[h] = prevout
                       THEN MarkOfferFilled(ob, h, txHash).s ELSE ob,
                       offerHashes \ {h}, prevout, txHash)

\* the loop over the inputs of one transaction
RECURSIVE ConnectInputs(_, _, _)
ConnectInputs(ob, vin, txHash) ==
    IF vin = <<>> THEN ob
    ELSE ConnectInputs(MarkSpent(ob, DOMAIN ob.offerUTXOs, Head(vin), txHash),
                       Tail(vin), txHash)

\* the loop over the transactions of the block
RECURSIVE ConnectTxs(_, _)
ConnectTxs(ob, vtx) ==
    IF vtx = <<>> THEN ob
    ELSE ConnectTxs(ConnectInputs(ob, Head(vtx).vin, Head(vtx).hash), Tail(vtx))

ConnectBlock(ob, block, height) ==
    LET marked == ConnectTxs([ob EXCEPT !.currentHeight = height], block.vtx)
    IN  [marked EXCEPT !.db = MapPut(@, DB_HEIGHT, height)]

DisconnectBlock(ob, block, height) ==
    [ob EXCEPT !.currentHeight = height - 1, !.db = MapPut(@, DB_HEIGHT, height - 1)]

\* the offers IsExpired selects, then RemoveOffer for each of them
RECURSIVE RemoveAll(_, _)
RemoveAll(ob, toRemove) ==
    IF toRemove = {} THEN ob
    ELSE LET h == CHOOSE x \in toRemove : TRUE
         IN  RemoveAll(RemoveOffer(ob, h).s, toRemove \ {h})

CleanupExpired(ob, currentHeight) ==
    RemoveAll(ob, {h \in DOMAIN ob.offers : IsExpired(ob.offers[h], currentHeight)})

NoObRet == [op |-> "", offerHash |-> NullHash, ok |-> TRUE, height |-> 0,
            removed |-> {}, afterAdd |-> FALSE, block |-> [vtx |-> <<>>],
            before |-> EmptyOrderBook]

IdleThread == [pc |-> "idle", tx |-> NullTx]

NoMnRet ==
    [op |-> "", pindex |-> nullptr, fJustCheck |-> FALSE, ok |-> TRUE, nDoS |-> 0,
     reason |-> "", prevList |-> CDeterministicMNList(NullHash, -1), loaded |-> FALSE,
     undoes |-> FALSE]

\* a manager that has just been constructed
ColdManager == [mnListsCache |-> EmptyMap, tipList |-> <<>>, evoDb |-> EmptyMap]

\* the snapshots of the MAX_CACHE_SIZE - 1 main-chain blocks up to MinHeight,
\* none of which carried a provider transaction
HistoricLists ==
    [h \in {GetBlockHash([nHeight |-> n, branch |-> 0]) :
                n \in (MinHeight - MAX_CACHE_SIZE + 2)..MinHeight}
        |-> CDeterministicMNList(h, h[2])]

\* a manager whose cache is one short of full after processing those blocks
WarmManager ==
    [mnListsCache |-> HistoricLists,
     tipList |-> <<HistoricLists[GetBlockHash([nHeight |-> MinHeight, branch |-> 0])]>>,
     evoDb |-> [k \in {<<"dmn_S", h>> : h \in DOMAIN HistoricLists}
                   |-> SerializeMNList(HistoricLists[k[2]])]]

InitNode ==
    /\ known = InitialBlocks
    /\ tip = [nHeight |-> MinHeight, branch |-> 0]
    /\ activeQuorums = [t \in LLMQTypes |-> <<>>]
    /\ signingManager = [sigShares |-> EmptyMap, recoveredSigs |-> EmptyMap]
    /\ chainLocksManager =
           [db |-> EmptyChainLocksDb, bestChainLock |-> NullChainLockSig,
            bestChainLockBlockIndex |-> nullptr, pendingChainLocks |-> EmptyMap,
            signingHeights |-> {}]
    /\ clRet = NoRet
    /\ crashed = FALSE
    /\ instantSendManager =
           [db |-> EmptyInstantSendDb, pendingTxs |-> EmptyMap,
            pendingRequests |-> EmptyMap, myProTxHash |-> NullHash]
    /\ isThread = IdleThread
    /\ isRet = NoIsRet
    /\ lockThreads = [t \in LockThreadIds |-> IdleLockThread]
    /\ orderBook = EmptyOrderBook
    /\ swapChain = <<>>
    /\ obRet = NoObRet

Init ==
    /\ InitNode
    /\ mnManager = ColdManager
    /\ blockTxs = EmptyMap
    /\ mnRet = NoMnRet

InitMN ==
    /\ InitNode
    /\ mnManager \in {ColdManager, WarmManager}
    /\ blockTxs = EmptyMap
    /\ mnRet = NoMnRet

\* ------------------------------------------------------------------------
\* Environment steps shared by the subsystems
\* ------------------------------------------------------------------------
\* a block arrives and enters the block index (parent first)
AcceptBlock(p) ==
    /\ ~crashed
    /\ p \notin known
    /\ pprev(p) \in known
    /\ known' = known \cup {p}
    /\ clRet' = [NoRet EXCEPT !.op = "AcceptBlock"]
    /\ UNCHANGED <<tip, activeQuorums, signingManager, chainLocksManager, crashed>>
    /\ UNCHANGED <<isVars, mnVars, lockVars, obVars>>

\* the validation layer switches the active chain to another known block
ActivateBestChain(p) ==
    /\ ~crashed
    /\ p \in known
    /\ p # tip
    /\ tip' = p
    /\ clRet' = [NoRet EXCEPT !.op = "ActivateBestChain"]
    /\ UNCHANGED <<known, activeQuorums, signingManager, chainLocksManager, crashed>>
    /\ UNCHANGED <<isVars, mnVars, lockVars, obVars>>

\* the quorum manager replaces the active quorum list of one type
SetActiveQuorums(type, list) ==
    /\ ~crashed
    /\ activeQuorums[type] # list
    /\ activeQuorums' = [activeQuorums EXCEPT ![type] = list]
    /\ clRet' = [NoRet EXCEPT !.op = "SetActiveQuorums"]
    /\ isRet' = [NoIsRet EXCEPT !.op = "SetActiveQuorums"]
    /\ UNCHANGED <<known, tip, signingManager, chainLocksManager, crashed,
                   instantSendManager, isThread, mnVars, lockVars, obVars>>

\* ------------------------------------------------------------------------
\* ChainLock steps
\* ------------------------------------------------------------------------
Call_ProcessChainLock(clsig) ==
    \E r \in {ProcessChainLock(ChainLocksNode, clsig)} :
       /\ ~crashed
       /\ chainLocksManager' = ChainLocksPart(r.s)
       /\ clRet' = [op |-> "ProcessChainLock", clsig |-> clsig, ok |-> r.ok, nDoS |-> r.nDoS, reason |-> r.reason]
       /\ UNCHANGED <<known, tip, activeQuorums, signingManager, crashed>>
       /\ UNCHANGED <<isVars, mnVars, lockVars, obVars>>

Call_ProcessNewBlock(pindex) ==
    \E s \in {ProcessNewBlock(ChainLocksNode, pindex)} :
       /\ ~crashed
       /\ chainLocksManager' = ChainLocksPart(s)
       /\ signingManager' = SigningPart(s)
       /\ clRet' = [NoRet EXCEPT !.op = "ProcessNewBlock"]
       /\ UNCHANGED <<known, tip, activeQuorums, crashed>>
       /\ UNCHANGED <<isVars, mnVars, lockVars, obVars>>

Call_UpdatedBlockTip(ub) ==
    \E r \in {CChainLocksManager_UpdatedBlockTip(ChainLocksNode, tip, ub)} :
       /\ ~crashed
       /\ chainLocksManager' = ChainLocksPart(r.s)
       /\ signingManager' = SigningPart(r.s)
       /\ crashed' = r.crashed
       /\ clRet' = [NoRet EXCEPT !.op = "UpdatedBlockTip"]
       /\ UNCHANGED <<known, tip, activeQuorums>>
       /\ UNCHANGED <<isVars, mnVars, lockVars, obVars>>

Call_WriteChainLock(clsig) ==
    \E w \in {WriteChainLock(chainLocksManager.db, clsig)} :
       /\ ~crashed
       /\ chainLocksManager' = [chainLocksManager EXCEPT !.db = w.db]
       /\ clRet' = [op |-> "WriteChainLock", clsig |-> clsig, ok |-> w.ok, nDoS |-> 0, reason |-> ""]
       /\ UNCHANGED <<known, tip, activeQuorums, signingManager, crashed>>
       /\ UNCHANGED <<isVars, mnVars, lockVars, obVars>>

Call_RemoveAboveHeight(nHeight) ==
    /\ ~crashed
    /\ chainLocksManager' =
           [chainLocksManager EXCEPT !.db = RemoveAboveHeight(chainLocksManager.db, nHeight)]
    /\ clRet' = [NoRet EXCEPT !.op = "RemoveAboveHeight"]
    /\ UNCHANGED <<known, tip, activeQuorums, signingManager, crashed>>
    /\ UNCHANGED <<isVars, mnVars, lockVars, obVars>>

vars ==
    <<known, tip, activeQuorums, signingManager, chainLocksManager, clRet, crashed,
      instantSendManager, isThread, isRet, mnManager, blockTxs, mnRet, lockThreads,
      orderBook, swapChain, obRet>>

ChainEnvNext ==
    \/ \E p \in AllBlocks : AcceptBlock(p)
    \/ \E p \in AllBlocks : ActivateBestChain(p)
    \/ \E list \in ActiveQuorumLists(CHAINLOCK_QUORUM_TYPE) :
           SetActiveQuorums(CHAINLOCK_QUORUM_TYPE, list)

ChainLocksManagerNext ==
    \/ \E clsig \in ReceivedChainLocks : Call_ProcessChainLock(clsig)
    \/ \E p \in AllBlocks : Call_ProcessNewBlock(p)
    \/ \E ub \in {"continue", "abort"} : Call_UpdatedBlockTip(ub)

ChainLocksNext ==
    \/ \E p \in AllBlocks : AcceptBlock(p)
    \/ \E list \in ActiveQuorumLists(CHAINLOCK_QUORUM_TYPE) :
           SetActiveQuorums(CHAINLOCK_QUORUM_TYPE, list)
    \/ \E clsig \in ReceivedChainLocks : Call_ProcessChainLock(clsig)
    \/ \E ub \in {"continue", "abort"} : Call_UpdatedBlockTip(ub)
    \/ \E clsig \in WrittenChainLocks : Call_WriteChainLock(clsig)
    \/ \E n \in (MinHeight - 1)..MaxHeight : Call_RemoveAboveHeight(n)

\* ChainLock manager and database on a node that is still below the
\* activation height: locks are received, parked, retried and written
SpecCL == Init /\ [][ChainLocksNext]_vars

NextCLManager == ChainEnvNext \/ ChainLocksManagerNext

\* the ChainLock manager with the chain moving and the node signing
SpecCLManager == Init /\ [][NextCLManager]_vars

\* ------------------------------------------------------------------------
\* InstantSend inputs
\* ------------------------------------------------------------------------
\* one transaction per outpoint spending just that outpoint, and one
\* transaction (number 0) spending all of them, highest outpoint first
SpendOne(k) == CTransaction(k, <<COutPoint(k)>>)

SpendAll == CTransaction(0, [j \in 1..NumOutpoints |-> COutPoint(NumOutpoints + 1 - j)])

Transactions == {SpendOne(k) : k \in 1..NumOutpoints} \cup {SpendAll}

\* the lock quorum members produce by signing the lock's sign hash
SignedLock(quorum, inputs, txid) ==
    CInstantSendLock(inputs, txid, quorum.quorumHash,
        QuorumSig(quorum, CInstantSendLock_GetSignHash(
                              CInstantSendLock(inputs, txid, quorum.quorumHash, NullSig))))

\* InstantSend locks a peer can send: the signed lock of every transaction, a
\* signed lock for transaction 0 that lists only the highest outpoint, and a
\* lock for transaction 0 without signature
ReceivedLocks ==
    {SignedLock(QuorumA(INSTANTSEND_QUORUM_TYPE), tx.vin, tx.hash) : tx \in Transactions}
    \cup {SignedLock(QuorumA(INSTANTSEND_QUORUM_TYPE), <<COutPoint(NumOutpoints)>>, SpendAll.hash),
          CInstantSendLock(SpendAll.vin, SpendAll.hash,
                           QuorumA(INSTANTSEND_QUORUM_TYPE).quorumHash, NullSig)}

\* locks written straight into the database (no checks apply there)
WrittenLocks ==
    {SignedLock(QuorumA(INSTANTSEND_QUORUM_TYPE), tx.vin, tx.hash) : tx \in Transactions}

\* ------------------------------------------------------------------------
\* InstantSend steps
\* ------------------------------------------------------------------------
InstantSendPart(s) ==
    [db |-> s.db, pendingTxs |-> s.pendingTxs, pendingRequests |-> s.pendingRequests,
     myProTxHash |-> s.myProTxHash]

\* the InstantSend manager together with the signing manager it calls into
InstantSendNode ==
    [db |-> instantSendManager.db,
     pendingTxs |-> instantSendManager.pendingTxs,
     pendingRequests |-> instantSendManager.pendingRequests,
     myProTxHash |-> instantSendManager.myProTxHash,
     sigShares |-> signingManager.sigShares,
     recoveredSigs |-> signingManager.recoveredSigs,
     signLog |-> <<>>]

clVars == <<known, tip, chainLocksManager, clRet>>

Call_SetMyProTxHash ==
    /\ ~crashed
    /\ instantSendManager.myProTxHash # quorumManager_myProTxHash
    /\ instantSendManager' =
           [instantSendManager EXCEPT !.myProTxHash = quorumManager_myProTxHash]
    /\ isRet' = [NoIsRet EXCEPT !.op = "SetMyProTxHash"]
    /\ UNCHANGED <<clVars, mnVars, lockVars, obVars, activeQuorums, signingManager, crashed, isThread>>

Call_ProcessInstantSendLock(islock) ==
    \E r \in {ProcessInstantSendLock(InstantSendNode, islock)} :
       /\ ~crashed
       /\ instantSendManager' = InstantSendPart(r.s)
       /\ isRet' = [NoIsRet EXCEPT !.op = "ProcessInstantSendLock", !.islock = islock,
                                   !.ok = r.ok, !.nDoS = r.nDoS, !.reason = r.reason]
       /\ UNCHANGED <<clVars, mnVars, lockVars, obVars, activeQuorums, signingManager, crashed, isThread>>

Call_WriteLock(islock) ==
    /\ ~crashed
    /\ instantSendManager' =
           [instantSendManager EXCEPT !.db = WriteLock(instantSendManager.db, islock)]
    /\ isRet' = [NoIsRet EXCEPT !.op = "WriteLock", !.islock = islock]
    /\ UNCHANGED <<clVars, mnVars, lockVars, obVars, activeQuorums, signingManager, crashed, isThread>>

Call_RemoveLock(hash) ==
    /\ ~crashed
    /\ instantSendManager' =
           [instantSendManager EXCEPT !.db = RemoveLock(instantSendManager.db, hash)]
    /\ isRet' = [NoIsRet EXCEPT !.op = "RemoveLock",
                                !.islock = GetLock(instantSendManager.db, hash).islock]
    /\ UNCHANGED <<clVars, mnVars, lockVars, obVars, activeQuorums, signingManager, crashed, isThread>>

Call_RemoveLocksForTxids(txids) ==
    /\ ~crashed
    /\ instantSendManager' =
           [instantSendManager EXCEPT
               !.db = RemoveLocksForTxids(instantSendManager.db, txids)]
    /\ isRet' = [NoIsRet EXCEPT !.op = "RemoveLocksForTxids"]
    /\ UNCHANGED <<clVars, mnVars, lockVars, obVars, activeQuorums, signingManager, crashed, isThread>>

\* ProcessTransaction takes the manager lock three times: in
\* HasConflictingLock, to add the pending entries, and in
\* TrySignInstantSendLock; other threads run in between.
ProcessTransaction_Check(tx) ==
    /\ ~crashed
    /\ isThread.pc = "idle"
    /\ isThread' =
           IF ~IsInstantSendEnabled \/ ~CanTxBeLocked(tx)
              \/ HasConflictingLock(instantSendManager.db, tx)
           THEN IdleThread
           ELSE [pc |-> "add", tx |-> tx]
    /\ isRet' = [NoIsRet EXCEPT !.op = "ProcessTransaction", !.tx = tx]
    /\ UNCHANGED <<clVars, mnVars, lockVars, obVars, activeQuorums, signingManager, crashed, instantSendManager>>

ProcessTransaction_Add ==
    /\ ~crashed
    /\ isThread.pc = "add"
    /\ instantSendManager' =
           [instantSendManager EXCEPT
               !.pendingTxs = MapPut(instantSendManager.pendingTxs,
                                     isThread.tx.hash, isThread.tx),
               !.pendingRequests = MapPut(instantSendManager.pendingRequests,
                                          isThread.tx.hash, GetTime)]
    /\ isThread' = [isThread EXCEPT !.pc = "sign"]
    /\ isRet' = [NoIsRet EXCEPT !.op = "ProcessTransaction", !.tx = isThread.tx]
    /\ UNCHANGED <<clVars, mnVars, lockVars, obVars, activeQuorums, signingManager, crashed>>

ProcessTransaction_Sign ==
    \E r \in {TrySignInstantSendLock(InstantSendNode, isThread.tx)} :
       /\ ~crashed
       /\ isThread.pc = "sign"
       /\ instantSendManager' = InstantSendPart(r.s)
       /\ signingManager' = SigningPart(r.s)
       /\ isThread' = IdleThread
       /\ isRet' = [NoIsRet EXCEPT !.op = "ProcessTransaction", !.tx = isThread.tx,
                                   !.ok = r.ok, !.signLog = r.s.signLog]
       /\ UNCHANGED <<clVars, mnVars, lockVars, obVars, activeQuorums, crashed>>

Call_SignLockRequest(tx) ==
    \E r \in {SignLockRequest(InstantSendNode, tx)} :
       /\ ~crashed
       /\ instantSendManager' = InstantSendPart(r.s)
       /\ signingManager' = SigningPart(r.s)
       /\ isRet' = [NoIsRet EXCEPT !.op = "SignLockRequest", !.tx = tx,
                                   !.ok = r.ok, !.signLog = r.s.signLog]
       /\ UNCHANGED <<clVars, mnVars, lockVars, obVars, activeQuorums, crashed, isThread>>

Call_InstantSendUpdatedBlockTip(ub) ==
    \E r \in {CInstantSendManager_UpdatedBlockTip(InstantSendNode, ub)} :
       /\ ~crashed
       /\ instantSendManager' = InstantSendPart(r.s)
       /\ signingManager' = SigningPart(r.s)
       /\ crashed' = r.crashed
       /\ isRet' = [NoIsRet EXCEPT !.op = "UpdatedBlockTip", !.signLog = r.s.signLog]
       /\ UNCHANGED <<clVars, mnVars, lockVars, obVars, activeQuorums, isThread>>

InstantSendDbNext ==
    \/ \E islock \in ReceivedLocks : Call_ProcessInstantSendLock(islock)
    \/ \E islock \in WrittenLocks : Call_WriteLock(islock)
    \/ \E islock \in ReceivedLocks : Call_RemoveLock(CInstantSendLock_GetHash(islock))
    \/ \E txids \in SUBSET {tx.hash : tx \in Transactions} :
           Call_RemoveLocksForTxids(txids)

\* the lock database under received locks, direct writes and removals
SpecISDb == Init /\ [][InstantSendDbNext]_vars

\* the transactions this node is asked to sign: the one spending every
\* outpoint and one that spends a single outpoint of it
SigningRequests == {SpendOne(1), SpendAll}

InstantSendSignNext ==
    \/ \E list \in ActiveQuorumLists(INSTANTSEND_QUORUM_TYPE) :
           SetActiveQuorums(INSTANTSEND_QUORUM_TYPE, list)
    \/ Call_SetMyProTxHash
    \/ \E islock \in ReceivedLocks : Call_ProcessInstantSendLock(islock)
    \/ \E tx \in SigningRequests : ProcessTransaction_Check(tx)
    \/ ProcessTransaction_Add
    \/ ProcessTransaction_Sign
    \/ \E tx \in SigningRequests : Call_SignLockRequest(tx)
    \/ \E ub \in {"continue", "abort"} : Call_InstantSendUpdatedBlockTip(ub)

\* the InstantSend manager signing transactions while locks arrive
SpecISSign == Init /\ [][InstantSendSignNext]_vars

\* ------------------------------------------------------------------------
\* Masternode inputs: provider transactions and the blocks that carry them
\* ------------------------------------------------------------------------
\* transaction number k spends outpoint k; the payload commits to the
\* inputs and is then signed (owner-signed payloads with keyID, operator-
\* signed ones with a non-empty BLS signature)
ProviderTx(k, nType, payload, keyID) ==
    LET vin == <<COutPoint(k)>>
        hashed == [payload EXCEPT !.inputsHash = <<"inputs", vin>>]
    IN  [hash |-> <<"tx", k>>, nVersion |-> 3, nType |-> nType, vin |-> vin,
         vExtraPayload |->
             [hashed EXCEPT !.vchSig = IF keyID = CKeyID(0) THEN <<"blssig", k>>
                                       ELSE <<"sig", keyID, GetSignatureHash(hashed)>>]]

NormalTx ==
    [hash |-> <<"tx", 9>>, nVersion |-> 2, nType |-> 0, vin |-> <<COutPoint(9)>>,
     vExtraPayload |-> [kind |-> ""]]

\* registration k of collateral c, endpoint a and owner key o
ProRegTx(k, c, a, o) ==
    ProviderTx(k, TRANSACTION_PROVIDER_REGISTER,
               [kind |-> "CProRegTx", nVersion |-> CURRENT_VERSION, nType |-> 0,
                nMode |-> 0, collateralOutpoint |-> COutPoint(c), addr |-> CService(a),
                keyIDOwner |-> CKeyID(o), vchOperatorPubKey |-> OperatorPubKey(k, 48),
                keyIDVoting |-> CKeyID(o), nOperatorReward |-> 0,
                scriptPayout |-> <<"p2pkh", o>>, inputsHash |-> NullHash,
                vchSig |-> <<>>],
               CKeyID(o))

ProUpServTx(k, reg, a) ==
    ProviderTx(k, TRANSACTION_PROVIDER_UPDATE_SERVICE,
               [kind |-> "CProUpServTx", nVersion |-> CURRENT_VERSION,
                proTxHash |-> <<"tx", reg>>, addr |-> CService(a),
                scriptOperatorPayout |-> <<>>, inputsHash |-> NullHash, vchSig |-> <<>>],
               CKeyID(0))

\* the owner o replaces the operator key and leaves the rest as it is
ProUpRegTx(k, reg, o) ==
    ProviderTx(k, TRANSACTION_PROVIDER_UPDATE_REGISTRAR,
               [kind |-> "CProUpRegTx", nVersion |-> CURRENT_VERSION,
                proTxHash |-> <<"tx", reg>>, nMode |-> 0,
                vchOperatorPubKey |-> OperatorPubKey(k, 48), keyIDVoting |-> CKeyID(0),
                scriptPayout |-> <<>>, inputsHash |-> NullHash, vchSig |-> <<>>],
               CKeyID(o))

ProUpRevTx(k, reg, nReason) ==
    ProviderTx(k, TRANSACTION_PROVIDER_UPDATE_REVOKE,
               [kind |-> "CProUpRevTx", nVersion |-> CURRENT_VERSION,
                proTxHash |-> <<"tx", reg>>, nReason |-> nReason,
                inputsHash |-> NullHash, vchSig |-> <<>>],
               CKeyID(0))

\* block bodies: no provider transaction; one registration; two
\* registrations of the same collateral, endpoint and owner key; the second
\* of them alone; updates of the first registration
BlockBodies ==
    {[vtx |-> <<NormalTx>>],
     [vtx |-> <<NormalTx, ProRegTx(1, 1, 1, 1)>>],
     [vtx |-> <<ProRegTx(1, 1, 1, 1), ProRegTx(2, 1, 1, 1)>>],
     [vtx |-> <<ProRegTx(2, 1, 1, 1)>>],
     [vtx |-> <<ProUpServTx(3, 1, 2), ProUpRegTx(4, 1, 1), ProUpRevTx(5, 1, 1)>>]}

\* ------------------------------------------------------------------------
\* Masternode manager steps.  The validation layer connects a block on top
\* of the active tip and disconnects the tip; a block hash commits to the
\* block's transactions, so a block index always comes with the same body.
\* ------------------------------------------------------------------------
Call_ProcessSpecialTxsInBlock(block, pindex, fJustCheck) ==
    /\ ~crashed
    /\ pprev(pindex) = tip
    /\ GetBlockHash(pindex) \in DOMAIN blockTxs => blockTxs[GetBlockHash(pindex)] = block
    /\ \E r \in {ProcessSpecialTxsInBlock(mnManager, block, pindex, fJustCheck)} :
          /\ mnManager' = r.s
          /\ tip' = IF r.ok /\ ~fJustCheck THEN pindex ELSE tip
          /\ mnRet' = [NoMnRet EXCEPT
                          !.op = "ProcessSpecialTxsInBlock", !.pindex = pindex,
                          !.fJustCheck = fJustCheck, !.ok = r.ok, !.nDoS = r.nDoS,
                          !.reason = r.reason,
                          !.prevList = GetListForBlock(mnManager, pprev(pindex)).list]
    /\ blockTxs' = MapPut(blockTxs, GetBlockHash(pindex), block)
    /\ UNCHANGED <<known, activeQuorums, signingManager, chainLocksManager, clRet,
                   crashed, isVars, lockVars, obVars>>

Call_UndoSpecialTxsInBlock(pindex) ==
    /\ ~crashed
    /\ pindex = tip
    /\ pprev(pindex) # nullptr
    /\ mnManager' = UndoSpecialTxsInBlock(mnManager, pindex)
    /\ tip' = pprev(pindex)
    /\ mnRet' = [NoMnRet EXCEPT
                    !.op = "UndoSpecialTxsInBlock", !.pindex = pindex,
                    !.loaded = GetBlockHash(pprev(pindex)) \notin
                                   DOMAIN mnManager.mnListsCache,
                    !.undoes = /\ mnRet.op = "ProcessSpecialTxsInBlock"
                               /\ mnRet.ok /\ ~mnRet.fJustCheck
                               /\ mnRet.pindex = pindex]
    /\ UNCHANGED <<known, activeQuorums, signingManager, chainLocksManager, clRet,
                   crashed, isVars, lockVars, obVars, blockTxs>>

Call_GetListForBlock(pindex) ==
    /\ ~crashed
    /\ mnManager' = GetListForBlock(mnManager, pindex).m
    /\ mnRet' = [NoMnRet EXCEPT
                    !.op = "GetListForBlock", !.pindex = pindex,
                    !.loaded = mnManager'.mnListsCache # mnManager.mnListsCache]
    /\ UNCHANGED <<known, tip, activeQuorums, signingManager, chainLocksManager, clRet,
                   crashed, isVars, lockVars, obVars, blockTxs>>

MasternodeNext ==
    \/ \E block \in BlockBodies, pindex \in AllBlocks, fJustCheck \in BOOLEAN :
           Call_ProcessSpecialTxsInBlock(block, pindex, fJustCheck)
    \/ \E pindex \in AllBlocks : Call_UndoSpecialTxsInBlock(pindex)
    \/ \E pindex \in AllBlocks : Call_GetListForBlock(pindex)

\* the masternode manager while blocks are connected and disconnected, on a
\* node that has just started and on one with a full snapshot cache
SpecMN == InitMN /\ [][MasternodeNext]_vars

\* ------------------------------------------------------------------------
\* ChainLock properties
\* ------------------------------------------------------------------------
BestHeight == chainLocksManager.db.bestChainLockHeight

LockedHeights == DOMAIN chainLocksManager.db.locksByHeight

\* height of the last common ancestor of every pair of blocks
ForkHeight ==
    [pr \in AllBlocks \X AllBlocks |-> LastCommonAncestor(pr[1], pr[2]).nHeight]

\* pairs of distinct blocks
ForkPairs == {pr \in AllBlocks \X AllBlocks : pr[1] # pr[2]}

C2_BestHeightMonotone ==
    [][clRet'.op \in {"WriteChainLock", "ProcessChainLock", "UpdatedBlockTip"} =>
          BestHeight' >= BestHeight]_vars

\* a write below the best height was attempted and refused
C2_Witness ==
    /\ clRet.op = "WriteChainLock"
    /\ ~clRet.ok
    /\ clRet.clsig.nHeight < BestHeight
    /\ BestHeight = MaxHeight

OneLockPerHeight ==
    \A x \in DOMAIN chainLocksManager.db.locksByHash :
       \A y \in DOMAIN chainLocksManager.db.locksByHash :
          chainLocksManager.db.locksByHash[x].nHeight
              = chainLocksManager.db.locksByHash[y].nHeight => x = y

\* the block hash locked at a height that stays locked is not replaced
LockedHashKept ==
    \A h \in LockedHeights \cap LockedHeights' :
       chainLocksManager.db.locksByHeight[h].blockHash
           = chainLocksManager.db.locksByHeight[h].blockHash'

\* C9 as stated: after every step the database records at most one block
\* hash per height, and no step replaces the hash locked at a height.
C9_OneLockPerHeight == [][OneLockPerHeight' /\ LockedHashKept]_vars

\* the by-hash index holds exactly the locks of the by-height index
IndexesAgree ==
    DOMAIN chainLocksManager.db.locksByHash
        = {chainLocksManager.db.locksByHeight[h].blockHash : h \in LockedHeights}

\* C9 amended: no step other than a direct WriteChainLock replaces the hash
\* locked at a height, and from a database whose two indexes agree such a
\* step leaves at most one hash per height; only a direct WriteChainLock at
\* the best height overwrites the lock there.
C9_ManagerKeepsOneLockPerHeight ==
    [][clRet'.op # "WriteChainLock" =>
          LockedHashKept /\ (IndexesAgree => OneLockPerHeight')]_vars

\* the manager refused a lock for another block at an occupied height
C9_Witness ==
    /\ clRet.op = "ProcessChainLock"
    /\ clRet.reason = "chainlock-conflict"
    /\ clRet.clsig.nHeight = BestHeight
    /\ OneLockPerHeight
    /\ chainLocksManager.db.locksByHeight[BestHeight].blockHash # clRet.clsig.blockHash

\* a received lock that is not stored and lies below the best height
LowerUnknown(clsig) ==
    /\ ~HasChainLock(chainLocksManager.db, clsig.blockHash)
    /\ clsig.nHeight < BestHeight

\* another block hash is locked at the height of clsig
ConflictAt(clsig) ==
    /\ clsig.nHeight \in LockedHeights
    /\ chainLocksManager.db.locksByHeight[clsig.nHeight].blockHash # clsig.blockHash

StoredLocks == DOMAIN instantSendManager.db.locksById

InputsOf(hash) ==
    {instantSendManager.db.locksById[hash].inputs[j] :
        j \in 1..Len(instantSendManager.db.locksById[hash].inputs)}

\* every input of every stored lock is indexed to that lock, and no two
\* stored locks share an outpoint
OutpointInExactlyOneLock ==
    /\ \A h \in StoredLocks : \A o \in InputsOf(h) :
          /\ o \in DOMAIN instantSendManager.db.inputLocks
          /\ instantSendManager.db.inputLocks[o] = h
    /\ \A h1 \in StoredLocks : \A h2 \in StoredLocks :
          h1 # h2 => InputsOf(h1) \cap InputsOf(h2) = {}

\* the by-txid index holds exactly the stored locks
TxidIndexAgrees ==
    /\ DOMAIN instantSendManager.db.txidToLockHash
          = {instantSendManager.db.locksById[h].txid : h \in StoredLocks}
    /\ \A h \in StoredLocks :
          instantSendManager.db.txidToLockHash[instantSendManager.db.locksById[h].txid] = h

\* C3 as stated: in every state reached by lock writes, received locks and
\* removals, each input of a stored InstantSend lock is indexed to that lock
\* alone and no two stored locks share an outpoint.
C3_OutpointInExactlyOneLock == OutpointInExactlyOneLock

\* C3 amended: every received lock and every removal keeps that property
\* (from a database whose by-txid index holds exactly the stored locks, which
\* these steps keep as well); a direct WriteLock stores a lock without any
\* conflict check.
C3_ReceivedLocksKeepOutpointsDisjoint ==
    [][isRet'.op # "WriteLock" =>
          ((OutpointInExactlyOneLock /\ TxidIndexAgrees)
              => (OutpointInExactlyOneLock' /\ TxidIndexAgrees'))]_vars

\* two locks are stored with disjoint inputs, the last one received was
\* refused for a conflict, and no direct write has broken the indexes
C3_Witness ==
    /\ isRet.op = "ProcessInstantSendLock"
    /\ isRet.reason = "islock-conflict"
    /\ Cardinality(StoredLocks) = NumOutpoints
    /\ OutpointInExactlyOneLock
    /\ TxidIndexAgrees

\* C5 as stated: no operation calls AsyncSign for a transaction while one of
\* its inputs is locked for another txid.
C5_NoSigningOfConflictingTx ==
    \A j \in 1..Len(isRet.signLog) : ~isRet.signLog[j].conflicting

\* a lock for another txid is stored and indexed on an input of islock
ConflictsWithStored(islock) ==
    \E h \in StoredLocks :
       /\ instantSendManager.db.locksById[h].txid # islock.txid
       /\ \E j \in 1..Len(islock.inputs) :
             /\ islock.inputs[j] \in InputsOf(h)
             /\ islock.inputs[j] \in DOMAIN instantSendManager.db.inputLocks
             /\ instantSendManager.db.inputLocks[islock.inputs[j]] = h

\* the received lock was refused as a conflict and nothing was stored
RejectedAsConflict ==
    /\ ~isRet'.ok
    /\ isRet'.nDoS = 100
    /\ isRet'.reason = "islock-conflict"
    /\ instantSendManager'.db = instantSendManager.db

\* C6 as stated: a received lock for another txid that includes an outpoint
\* of a stored lock is rejected with DoS 100 and "islock-conflict", and the
\* lock database is unchanged.
C6_ConflictingLockRejected ==
    [][(isRet'.op = "ProcessInstantSendLock" /\ ConflictsWithStored(isRet'.islock))
          => RejectedAsConflict]_vars

\* C6 amended: the same for a received lock whose txid has no stored lock and
\* whose signature verifies.
C6_ValidConflictingLockRejected ==
    [][(/\ isRet'.op = "ProcessInstantSendLock"
        /\ ConflictsWithStored(isRet'.islock)
        /\ ~IsTxLocked(instantSendManager.db, isRet'.islock.txid)
        /\ VerifyInstantSendLock(isRet'.islock))
          => RejectedAsConflict]_vars

\* a signed lock for the transaction spending every outpoint was refused
\* while the lock of a single-outpoint transaction is stored
C6_Witness ==
    /\ isRet.op = "ProcessInstantSendLock"
    /\ isRet.islock.txid = SpendAll.hash
    /\ isRet.islock.sig.fValid
    /\ isRet.nDoS = 100
    /\ isRet.reason = "islock-conflict"
    /\ ConflictsWithStored(isRet.islock)
    /\ ~IsTxLocked(instantSendManager.db, SpendAll.hash)

\* ------------------------------------------------------------------------
\* Masternode list properties
\* ------------------------------------------------------------------------
\* every list block processing has produced: the cached snapshots, the
\* snapshots in the database and the tip list
ProducedLists ==
    {mnManager.mnListsCache[h] : h \in DOMAIN mnManager.mnListsCache}
    \cup {UnserializeMNList(mnManager.evoDb[k]) : k \in DOMAIN mnManager.evoDb}
    \cup {mnManager.tipList[j] : j \in 1..Len(mnManager.tipList)}

SharesUniqueProperty(a, b) ==
    \/ a.collateralOutpoint = b.collateralOutpoint
    \/ a.state.addr = b.state.addr
    \/ a.state.keyIDOwner = b.state.keyIDOwner

\* C4: in every masternode list produced by block processing no two entries
\* share a collateral outpoint, an endpoint or an owner key id
C4_NoSharedUniqueProperty ==
    \A list \in ProducedLists :
        \A a, b \in DOMAIN list.mnMap :
            a # b => ~SharesUniqueProperty(list.mnMap[a], list.mnMap[b])

\* C7: when a block has been connected and the next step disconnects it,
\* GetListForBlock of its predecessor returns the list it returned before
\* the block was connected
C7_ConnectDisconnectKeepsPrevList ==
    [][(/\ mnRet.op = "ProcessSpecialTxsInBlock"
        /\ mnRet.ok
        /\ ~mnRet.fJustCheck
        /\ mnRet'.op = "UndoSpecialTxsInBlock"
        /\ mnRet'.pindex = mnRet.pindex)
       => GetListForBlock(mnManager', pprev(mnRet.pindex)).list = mnRet.prevList]_vars

\* a block was connected and at once disconnected while its predecessor's
\* snapshot, which holds a masternode, had been evicted from the cache and
\* came back from the database
C7_Witness ==
    /\ mnRet.op = "UndoSpecialTxsInBlock"
    /\ mnRet.undoes
    /\ mnRet.loaded
    /\ GetListForBlock(mnManager, pprev(mnRet.pindex)).list.mnMap # EmptyMap

\* ------------------------------------------------------------------------
\* ChainLock properties, continued
\* ------------------------------------------------------------------------
\* the greatest locked height at or below nHeight in the database, 0 if none
BestLockAtOrBelow(db, nHeight) ==
    IF \E h \in DOMAIN db.locksByHeight : h <= nHeight
    THEN Max({h \in DOMAIN db.locksByHeight : h <= nHeight})
    ELSE 0

\* C11: a step that is RemoveAboveHeight(n) leaves no lock above n and sets
\* the best chain-locked height to the greatest height at or below n that
\* still holds a lock, or to 0 when there is none
C11_RemoveAboveHeightResetsBest ==
    [][\A n \in (MinHeight - 1)..MaxHeight :
          (/\ clRet'.op = "RemoveAboveHeight"
           /\ chainLocksManager'.db = RemoveAboveHeight(chainLocksManager.db, n))
          => /\ \A h \in DOMAIN chainLocksManager'.db.locksByHeight : h <= n
             /\ chainLocksManager'.db.bestChainLockHeight =
                    BestLockAtOrBelow(chainLocksManager'.db, n)]_vars

\* the locks held in the database and in the pending map
StoredChainLocks ==
    {chainLocksManager.db.locksByHash[k] : k \in DOMAIN chainLocksManager.db.locksByHash}

ParkedChainLocks ==
    {chainLocksManager.pendingChainLocks[k] :
        k \in DOMAIN chainLocksManager.pendingChainLocks}

\* the step is taken by ProcessChainLock, called directly or by the retry
\* of the parked locks
ByProcessChainLock == clRet'.op \in {"ProcessChainLock", "UpdatedBlockTip"}

C13_PendingLockInstalledOnceBlockKnown ==
    [][clRet'.op = "UpdatedBlockTip" =>
          \A h \in DOMAIN chainLocksManager.pendingChainLocks :
             LET c == chainLocksManager.pendingChainLocks[h]
                 blockIndex == LookupBlockIndex(c.blockHash)
             IN IF blockIndex = nullptr
                THEN /\ h \in DOMAIN chainLocksManager'.pendingChainLocks
                     /\ chainLocksManager'.pendingChainLocks[h] = c
                ELSE (/\ blockIndex.nHeight = c.nHeight
                      /\ VerifyChainLock(c)
                      /\ c.nHeight > BestHeight)
                     => /\ ~crashed'
                        /\ HasChainLock(chainLocksManager'.db, c.blockHash)
                        /\ h \notin DOMAIN chainLocksManager'.pendingChainLocks]_vars

\* C14: ChainLocks are disabled below the activation height: the manager
\* signs, accepts, parks and stores no ChainLock for a block below
\* CHAINLOCK_ACTIVATION_HEIGHT
C14_NoChainLockBelowActivation ==
    /\ \A c \in StoredChainLocks \cup ParkedChainLocks :
          c.nHeight >= CHAINLOCK_ACTIVATION_HEIGHT
    /\ \A h \in chainLocksManager.signingHeights : h >= CHAINLOCK_ACTIVATION_HEIGHT
    /\ (clRet.op = "ProcessChainLock" /\ clRet.ok)
          => clRet.clsig.nHeight >= CHAINLOCK_ACTIVATION_HEIGHT

\* the registrations a block carries, in block order
Registrations(vtx) ==
    LET IsRegistration(tx) ==
            IsTxTypeSpecial(tx) /\ tx.nType = TRANSACTION_PROVIDER_REGISTER
    IN SelectSeq(vtx, IsRegistration)

\* C15: a registration accepted at block height h yields an entry with
\* registered-at = h and internalId = the total-registered count before its
\* insertion, and the total-registered count grows by exactly one per
\* accepted registration
C15_RegistrationCountsOnce ==
    [][(/\ mnRet'.op = "ProcessSpecialTxsInBlock"
        /\ mnRet'.ok
        /\ ~mnRet'.fJustCheck)
       => LET regs == Registrations(blockTxs'[GetBlockHash(mnRet'.pindex)].vtx)
              newList == mnManager'.tipList[1]
          IN /\ newList.nTotalRegisteredCount =
                    mnRet'.prevList.nTotalRegisteredCount + Len(regs)
             /\ \A j \in 1..Len(regs) :
                   /\ newList.mnMap[regs[j].hash].state.nRegisteredHeight =
                          mnRet'.pindex.nHeight
                   /\ newList.mnMap[regs[j].hash].internalId =
                          mnRet'.prevList.nTotalRegisteredCount + j - 1]_vars

\* ------------------------------------------------------------------------
\* InstantSend block validation
\* ------------------------------------------------------------------------
\* blocks handed to the manager: one per transaction, and one with the
\* transactions spending the first and the last outpoint
InstantSendBlocks ==
    {[vtx |-> <<tx>>] : tx \in Transactions}
    \cup {[vtx |-> <<SpendOne(1), SpendOne(NumOutpoints)>>]}

Call_InstantSendProcessBlock(block) ==
    \E r \in {CInstantSendManager_ProcessBlock(InstantSendNode, block)} :
       /\ ~crashed
       /\ instantSendManager' = InstantSendPart(r.s)
       /\ isRet' = [NoIsRet EXCEPT !.op = "ProcessBlock", !.block = block, !.ok = r.ok]
       /\ UNCHANGED <<clVars, mnVars, lockVars, obVars, activeQuorums, signingManager, crashed, isThread>>

InstantSendBlockNext ==
    \/ \E list \in ActiveQuorumLists(INSTANTSEND_QUORUM_TYPE) :
           SetActiveQuorums(INSTANTSEND_QUORUM_TYPE, list)
    \/ \E islock \in ReceivedLocks : Call_ProcessInstantSendLock(islock)
    \/ \E tx \in Transactions : ProcessTransaction_Check(tx)
    \/ ProcessTransaction_Add
    \/ ProcessTransaction_Sign
    \/ \E block \in InstantSendBlocks : Call_InstantSendProcessBlock(block)

\* the InstantSend manager with blocks being connected while transactions
\* are signed and locks arrive
SpecISBlock == Init /\ [][InstantSendBlockNext]_vars

\* C16: the InstantSend block check accepts no block that holds a transaction
\* spending an outpoint locked for a different txid
C16_BlockWithConflictingTxRejected ==
    [][(/\ isRet'.op = "ProcessBlock"
        /\ \E j \in 1..Len(isRet'.block.vtx) :
              HasConflictingLock(instantSendManager.db, isRet'.block.vtx[j]))
       => ~isRet'.ok]_vars

\* C17: a competing chain without the ChainLock is rejected: the validation
\* check fails for every block at a height that holds a ChainLock for a
\* different block hash
C17_CompetingBlockRejected ==
    \A pindex \in AllBlocks :
        (/\ IsChainLocked(chainLocksManager.db, pindex.nHeight)
         /\ chainLocksManager.db.locksByHeight[pindex.nHeight].blockHash
                # GetBlockHash(pindex))
        => ~CheckAgainstChainLocks(pindex)

\* ------------------------------------------------------------------------
\* Signing sessions
\* ------------------------------------------------------------------------
\* the sessions of the ChainLock quorum type for the first and the last
\* activated height; each signs the hash of the main-chain block
SessionIds ==
    {CChainLocksManager_CreateRequestId(h) : h \in {CHAINLOCK_ACTIVATION_HEIGHT, MaxHeight}}

SessionMsgHash(id) == MsgHash(id, GetBlockHash([nHeight |-> id[2], branch |-> 0]))

\* masternodes whose shares arrive: the member of quorum A and the three
\* members of quorum B
ShareSenders == 1..4

\* the share masternode i produces for a session on a quorum
OperatorShare(i, quorum, id, msgHash) ==
    Sign(OperatorSecretKey(i),
         BuildSignHash(CHAINLOCK_QUORUM_TYPE, quorum.quorumHash, id, msgHash))

\* share messages peers send: the share of every member of either quorum,
\* a share of masternode 1 for quorum B, of which it is no member, and a
\* share of masternode 3 over another message
ReceivedSigShares ==
    UNION {{[quorumHash |-> q.quorumHash, id |-> id, proTxHash |-> ProTxHash(i),
             sigShare |-> OperatorShare(i, q, id, SessionMsgHash(id))] :
               id \in SessionIds,
               i \in {j \in ShareSenders : j = 1 \/ IsMember(q, ProTxHash(j))}} :
           q \in {QuorumA(CHAINLOCK_QUORUM_TYPE), QuorumB(CHAINLOCK_QUORUM_TYPE)}}
    \cup {[quorumHash |-> QuorumB(CHAINLOCK_QUORUM_TYPE).quorumHash, id |-> id,
           proTxHash |-> ProTxHash(3),
           sigShare |-> OperatorShare(3, QuorumB(CHAINLOCK_QUORUM_TYPE), id, NullHash)] :
             id \in SessionIds}

Call_ProcessSigShare(msg) ==
    \E r \in {ProcessSigShare(signingManager, msg.quorumHash, msg.id, msg.proTxHash,
                              msg.sigShare)} :
       /\ ~crashed
       /\ signingManager' = SigningPart(r.s)
       /\ UNCHANGED <<clVars, isVars, mnVars, lockVars, obVars, activeQuorums, crashed>>

Call_AsyncSign(type, id, msgHash) ==
    \E r \in {AsyncSign(signingManager, activeQuorums[type], type, id, msgHash)} :
       /\ ~crashed
       /\ signingManager' = SigningPart(r.s)
       /\ UNCHANGED <<clVars, isVars, mnVars, lockVars, obVars, activeQuorums, crashed>>

SigningNext ==
    \/ \E list \in ActiveQuorumLists(CHAINLOCK_QUORUM_TYPE) :
           SetActiveQuorums(CHAINLOCK_QUORUM_TYPE, list)
    \/ \E msg \in ReceivedSigShares : Call_ProcessSigShare(msg)
    \/ \E id \in SessionIds : Call_AsyncSign(CHAINLOCK_QUORUM_TYPE, id, SessionMsgHash(id))

\* the signing manager with shares arriving, this node signing and the
\* active quorum list changing
SpecSigning == Init /\ [][SigningNext]_vars

\* ------------------------------------------------------------------------
\* Signing manager properties
\* ------------------------------------------------------------------------
DesignatedQuorum(id) ==
    SelectQuorumForSigning(activeQuorums[CHAINLOCK_QUORUM_TYPE], CHAINLOCK_QUORUM_TYPE, id)

HeldShares(sm, id) == IF id \in DOMAIN sm.sigShares THEN sm.sigShares[id] ELSE EmptyMap

MemberShares(sm, id) ==
    {k \in DOMAIN HeldShares(sm, id) : IsMember(DesignatedQuorum(id), k)}

Recovery(id) ==
    TryRecoverSignature(signingManager, activeQuorums[CHAINLOCK_QUORUM_TYPE],
                        CHAINLOCK_QUORUM_TYPE, id, SessionMsgHash(id))

\* the signature is recovered from a threshold of the designated quorum's
\* member shares held for the session and from nothing else
FromMemberShares(id, sig) ==
    /\ DesignatedQuorum(id) # NoQuorum
    /\ Cardinality(MemberShares(signingManager, id)) >= GetThreshold(DesignatedQuorum(id))
    /\ \E used \in SUBSET MemberShares(signingManager, id) :
          /\ Cardinality(used) = GetThreshold(DesignatedQuorum(id))
          /\ sig = AggregateSignatures(
                       [j \in 1..Cardinality(used) |->
                           HeldShares(signingManager, id)[
                               ProTxHash(SortedSeq({k[2] : k \in used})[j])]])

\* C18 as stated: whenever TryRecoverSignature produces a recovered signature
\* for a session, a threshold of the held shares comes from members of the
\* designated quorum and only member shares entered the recovery
C18_RecoveryNeedsMemberShares ==
    \A id \in SessionIds :
        Recovery(id).ok => FromMemberShares(id, Recovery(id).recSig.sig)

\* C18 (amended): a signature TryRecoverSignature recovers anew, with no
\* recovered signature cached for the session, comes from a threshold of
\* member shares of the designated quorum and from no other share; with one
\* cached, TryRecoverSignature returns the cached one
C18_FreshRecoveryNeedsMemberShares ==
    \A id \in SessionIds :
        Recovery(id).ok =>
            IF id \in DOMAIN signingManager.recoveredSigs
            THEN Recovery(id).recSig = signingManager.recoveredSigs[id]
            ELSE FromMemberShares(id, Recovery(id).recSig.sig)

\* a signature is recovered anew for a session that also holds a share from
\* a masternode outside the designated quorum
C18_Witness ==
    \E id \in SessionIds :
        /\ id \notin DOMAIN signingManager.recoveredSigs
        /\ Recovery(id).ok
        /\ GetThreshold(DesignatedQuorum(id)) > 1
        /\ DOMAIN HeldShares(signingManager, id) # MemberShares(signingManager, id)

\* C19: a recovered signature is cached or delivered to the caller only after
\* it has been verified against the quorum's public key under the session's
\* sign hash: every cached and every delivered recovered signature verifies
C19_RecoveredSigVerified ==
    /\ \A id \in DOMAIN signingManager.recoveredSigs :
          VerifyRecoveredSig(signingManager.recoveredSigs[id])
    /\ \A id \in SessionIds :
          Recovery(id).ok => VerifyRecoveredSig(Recovery(id).recSig)

\* C20: after any share arrival for a session recovery is attempted: once the
\* held shares of the designated quorum's members reach the threshold, the
\* step that stored the last of them leaves the session's recovered
\* signature available (GetRecoveredSig finds it)
C20_RecoveryAttemptedOnShareArrival ==
    [][\A id \in SessionIds :
          (/\ HeldShares(signingManager', id) # HeldShares(signingManager, id)
           /\ DesignatedQuorum(id) # NoQuorum
           /\ Cardinality(MemberShares(signingManager', id))
                  >= GetThreshold(DesignatedQuorum(id)))
          => id \in DOMAIN signingManager'.recoveredSigs]_vars

\* TryRecoverSignature for a session in a given state of the signing manager
RecoveryIn(sm, id) ==
    TryRecoverSignature(sm, activeQuorums[CHAINLOCK_QUORUM_TYPE],
                        CHAINLOCK_QUORUM_TYPE, id, SessionMsgHash(id))

\* C21: two recovery attempts for the same session on the same quorum give
\* the same recovered signature, whichever ran first and in whatever order
\* the shares arrived: an attempt that succeeds before and an attempt that
\* succeeds after the arrival of a further member's share agree
C21_RecoveryAttemptsConverge ==
    [][\A id \in SessionIds :
          (/\ activeQuorums' = activeQuorums
           /\ DOMAIN HeldShares(signingManager, id)
                  \subseteq DOMAIN HeldShares(signingManager', id)
           /\ \A k \in DOMAIN HeldShares(signingManager, id) :
                  HeldShares(signingManager', id)[k] = HeldShares(signingManager, id)[k]
           /\ RecoveryIn(signingManager, id).ok
           /\ RecoveryIn(signingManager', id).ok)
          => RecoveryIn(signingManager', id).recSig.sig
                 = RecoveryIn(signingManager, id).recSig.sig]_vars

\* ------------------------------------------------------------------------
\* Threads taking and releasing locks
\* ------------------------------------------------------------------------
HeldBy(t) == {lockThreads[t].held[i] : i \in DOMAIN lockThreads[t].held}

\* a thread enters one of the entry points
Call_EntryPoint(t, op) ==
    /\ lockThreads[t].op = ""
    /\ lockThreads' = [lockThreads EXCEPT ![t] = [op |-> op, pc |-> 1, held |-> <<>>]]
    /\ UNCHANGED <<clVars, isVars, mnVars, obVars, activeQuorums, signingManager, crashed>>

\* LOCK(l): blocks while another thread holds l; the same thread may re-enter
AcquireLock(t) ==
    LET th == lockThreads[t]
        trace == LockTrace(th.op)
    IN  /\ th.op # ""
        /\ th.pc <= Len(trace)
        /\ trace[th.pc].enter
        /\ \A u \in LockThreadIds \ {t} : trace[th.pc].lock \notin HeldBy(u)
        /\ lockThreads' = [lockThreads EXCEPT
                              ![t].pc = th.pc + 1,
                              ![t].held = Append(th.held, trace[th.pc].lock)]
        /\ UNCHANGED <<clVars, isVars, mnVars, obVars, activeQuorums, signingManager, crashed>>

\* the end of the scope of a LOCK(l); the entry point returns when its
\* outermost scope ends
ReleaseLock(t) ==
    LET th == lockThreads[t]
        trace == LockTrace(th.op)
    IN  /\ th.op # ""
        /\ th.pc <= Len(trace)
        /\ ~trace[th.pc].enter
        /\ lockThreads' = [lockThreads EXCEPT
                              ![t] = IF th.pc = Len(trace)
                                     THEN IdleLockThread
                                     ELSE [th EXCEPT
                                              !.pc = th.pc + 1,
                                              !.held = SubSeq(th.held, 1,
                                                              Len(th.held) - 1)]]
        /\ UNCHANGED <<clVars, isVars, mnVars, obVars, activeQuorums, signingManager, crashed>>

LockNext ==
    \/ \E t \in LockThreadIds, op \in EntryPoints : Call_EntryPoint(t, op)
    \/ \E t \in LockThreadIds : AcquireLock(t)
    \/ \E t \in LockThreadIds : ReleaseLock(t)

SpecLocks == Init /\ [][LockNext]_vars

\* position of the first acquisition of lock l in the held sequence h, 0 if none
FirstHeld(h, l) ==
    IF \E i \in DOMAIN h : h[i] = l
    THEN CHOOSE i \in DOMAIN h : h[i] = l /\ \A j \in 1..(i - 1) : h[j] # l
    ELSE 0

\* C22: whenever a thread holds more than one lock, the main-chain lock was
\* taken before any manager lock it holds, and it holds the lock of at most
\* one manager.
C22_LockOrder ==
    \A t \in LockThreadIds :
        LET h == lockThreads[t].held
        IN  /\ \A m \in ManagerLocks \cap HeldBy(t) :
                   cs_main \in HeldBy(t) => FirstHeld(h, cs_main) < FirstHeld(h, m)
            /\ \A m1, m2 \in ManagerLocks \cap HeldBy(t) : m1 = m2

\* ------------------------------------------------------------------------
\* InstantSend lock database: agreement of the three indexes
\* ------------------------------------------------------------------------
\* the lock stored under hash h has its txid and each of its inputs indexed to h
IndexedEverywhere(db, h) ==
    /\ db.locksById[h].txid \in DOMAIN db.txidToLockHash
    /\ db.txidToLockHash[db.locksById[h].txid] = h
    /\ \A j \in 1..Len(db.locksById[h].inputs) :
          /\ db.locksById[h].inputs[j] \in DOMAIN db.inputLocks
          /\ db.inputLocks[db.locksById[h].inputs[j]] = h

\* a lock is in the by-hash index if and only if its txid and each of its
\* inputs map to it: stored locks are indexed everywhere, and every entry of
\* the by-txid and outpoint indexes points to a stored lock that has that
\* txid or input
LockIndexesAgree(db) ==
    /\ \A h \in DOMAIN db.locksById : IndexedEverywhere(db, h)
    /\ \A t \in DOMAIN db.txidToLockHash :
          /\ db.txidToLockHash[t] \in DOMAIN db.locksById
          /\ db.locksById[db.txidToLockHash[t]].txid = t
    /\ \A o \in DOMAIN db.inputLocks :
          /\ db.inputLocks[o] \in DOMAIN db.locksById
          /\ \E j \in 1..Len(db.locksById[db.inputLocks[o]].inputs) :
                db.locksById[db.inputLocks[o]].inputs[j] = o

\* C23 as stated: after any sequence of lock writes and removals the three
\* indexes of the lock database agree.
C23_IndexesAgreeAfterWritesAndRemovals == LockIndexesAgree(instantSendManager.db)

\* the step wrote islock: it is in all three indexes afterwards
WroteToAllThree(islock) ==
    /\ CInstantSendLock_GetHash(islock) \in DOMAIN instantSendManager'.db.locksById
    /\ IndexedEverywhere(instantSendManager'.db, CInstantSendLock_GetHash(islock))

\* the step removed islock: its hash, its txid and its inputs have no entry
\* afterwards and every other entry is as before
RemovedFromAllThree(islock) ==
    LET h == CInstantSendLock_GetHash(islock)
        ins == {islock.inputs[j] : j \in 1..Len(islock.inputs)}
        db == instantSendManager.db
        after == instantSendManager'.db
    IN  /\ DOMAIN after.locksById = DOMAIN db.locksById \ {h}
        /\ DOMAIN after.txidToLockHash = DOMAIN db.txidToLockHash \ {islock.txid}
        /\ DOMAIN after.inputLocks = DOMAIN db.inputLocks \ ins
        /\ \A k \in DOMAIN after.locksById : after.locksById[k] = db.locksById[k]
        /\ \A k \in DOMAIN after.txidToLockHash :
              after.txidToLockHash[k] = db.txidToLockHash[k]
        /\ \A k \in DOMAIN after.inputLocks : after.inputLocks[k] = db.inputLocks[k]

\* C23 amended: every received lock and every removal keeps the three
\* indexes in agreement; a write, direct or of a received lock, leaves the
\* written lock in all three indexes; RemoveLock of a stored lock removes
\* that lock's hash, txid and input entries and nothing else. A direct
\* WriteLock overwrites the entries its txid and inputs had and is not
\* required to keep the agreement.
C23_ReceivedLocksAndRemovalsKeepAgreement ==
    [][/\ (isRet'.op # "WriteLock" /\ LockIndexesAgree(instantSendManager.db))
             => LockIndexesAgree(instantSendManager'.db)
       /\ (isRet'.op = "WriteLock"
           \/ (isRet'.op = "ProcessInstantSendLock"
               /\ instantSendManager'.db # instantSendManager.db))
             => WroteToAllThree(isRet'.islock)
       /\ (isRet'.op = "RemoveLock" /\ isRet'.islock # NullInstantSendLock)
             => RemovedFromAllThree(isRet'.islock)]_vars

\* a stored lock was removed while another lock stays stored, and the indexes
\* agree
C23_Witness ==
    /\ isRet.op = "RemoveLock"
    /\ isRet.islock # NullInstantSendLock
    /\ Cardinality(StoredLocks) = 1
    /\ LockIndexesAgree(instantSendManager.db)

\* the unique-property hashes of a list entry
UniqueProperties(mn) ==
    {GetUniquePropertyHash(mn.collateralOutpoint),
     GetUniquePropertyHash(mn.state.addr),
     GetUniquePropertyHash(mn.state.keyIDOwner)}

\* each entry's properties are indexed to that entry, and every index entry
\* refers to an entry of the list that has that property
UniquePropertyIndexAgrees(list) ==
    /\ \A k \in DOMAIN list.mnMap :
          \A h \in UniqueProperties(list.mnMap[k]) :
             /\ h \in DOMAIN list.mnUniquePropertyMap
             /\ list.mnUniquePropertyMap[h] = k
    /\ \A h \in DOMAIN list.mnUniquePropertyMap :
          /\ list.mnUniquePropertyMap[h] \in DOMAIN list.mnMap
          /\ h \in UniqueProperties(list.mnMap[list.mnUniquePropertyMap[h]])

\* C24: in every masternode list block processing has produced, by AddMN and
\* UpdateMN, each entry's collateral outpoint, endpoint and owner key are
\* indexed to that entry and every index entry refers to an entry that has
\* that property.
C24_UniquePropertyIndexBijective ==
    \A list \in ProducedLists : UniquePropertyIndexAgrees(list)

\* the snapshot of the block is in the cache or in the database
SnapshotAvailable(m, pindex) ==
    \/ GetBlockHash(pindex) \in DOMAIN m.mnListsCache
    \/ LoadListFromDb(m, GetBlockHash(pindex)) # <<>>

\* the list block processing computes for a block of known body on top of
\* its predecessor's snapshot
ReplayedList(m, pindex) ==
    ProcessSpecialTxsInBlock(m, blockTxs[GetBlockHash(pindex)], pindex, FALSE).s.tipList[1]

\* C25: for a block the node has the body of, whose snapshot is in neither
\* the cache nor the database while its predecessor's snapshot is at hand,
\* GetListForBlock returns the list that processing the block on top of the
\* predecessor's snapshot computes.
C25_MissingSnapshotRebuilt ==
    \A pindex \in AllBlocks :
        (/\ pprev(pindex) # nullptr
         /\ GetBlockHash(pindex) \in DOMAIN blockTxs
         /\ ~SnapshotAvailable(mnManager, pindex)
         /\ SnapshotAvailable(mnManager, pprev(pindex))
         /\ ProcessSpecialTxsInBlock(mnManager, blockTxs[GetBlockHash(pindex)],
                                     pindex, FALSE).ok)
        => GetListForBlock(mnManager, pindex).list = ReplayedList(mnManager, pindex)

\* ------------------------------------------------------------------------
\* Order-book steps
\* ------------------------------------------------------------------------
\* offers makers publish: two on the pair of the native asset and GOLD, one
\* in each direction, created at 1000 with timeouts 100 and 500, and one on
\* GOLD and SILVER
SwapOffers ==
    {CAtomicSwapOffer(1, <<>>, GOLD, 100, 1000),
     CAtomicSwapOffer(2, GOLD, <<>>, 500, 1000),
     CAtomicSwapOffer(3, SILVER, GOLD, 100, 1050)}

\* offer k is funded by outpoint k
FundingOutpoint(offer) == COutPoint(offer.offerHash[2])

\* blocks: transaction 1 spends the funding of offer 1; transaction 2, of a
\* competing block, spends it as well; transaction 3 spends the funding of
\* offers 2 and 3
SwapBlocks ==
    {[vtx |-> <<CTransaction(1, <<COutPoint(1)>>)>>],
     [vtx |-> <<CTransaction(2, <<COutPoint(1)>>)>>],
     [vtx |-> <<CTransaction(3, <<COutPoint(2), COutPoint(3)>>)>>]}

CleanupHeights == {1050, 1100, 1150, 1600}

MaxSwapBlocks == 2

\* the outpoints the transactions of a block spend
SpentBy(block) ==
    UNION {{block.vtx[i].vin[j] : j \in DOMAIN block.vtx[i].vin} : i \in DOMAIN block.vtx}

Call_AddOffer(offer, fundingUTXO) ==
    /\ orderBook' = AddOffer(orderBook, offer, fundingUTXO).s
    /\ obRet' = [NoObRet EXCEPT !.op = "AddOffer", !.offerHash = offer.offerHash,
                                !.ok = AddOffer(orderBook, offer, fundingUTXO).ok,
                                !.before = orderBook]
    /\ UNCHANGED <<clVars, isVars, mnVars, lockVars, activeQuorums, signingManager,
                   crashed, swapChain>>

Call_RemoveOffer(offerHash) ==
    /\ orderBook' = RemoveOffer(orderBook, offerHash).s
    /\ obRet' = [NoObRet EXCEPT
                    !.op = "RemoveOffer", !.offerHash = offerHash,
                    !.ok = RemoveOffer(orderBook, offerHash).ok,
                    !.afterAdd = /\ obRet.op = "AddOffer"
                                 /\ obRet.ok
                                 /\ obRet.offerHash = offerHash]
    /\ UNCHANGED <<clVars, isVars, mnVars, lockVars, activeQuorums, signingManager,
                   crashed, swapChain>>

Call_CleanupExpired(currentHeight) ==
    /\ orderBook' = CleanupExpired(orderBook, currentHeight)
    /\ obRet' = [NoObRet EXCEPT
                    !.op = "CleanupExpired", !.height = currentHeight,
                    !.removed = DOMAIN orderBook.offers \ DOMAIN orderBook'.offers]
    /\ UNCHANGED <<clVars, isVars, mnVars, lockVars, activeQuorums, signingManager,
                   crashed, swapChain>>

\* the validation layer connects a block that spends no outpoint an earlier
\* block of the chain has spent
Call_ConnectBlock(block) ==
    /\ Len(swapChain) < MaxSwapBlocks
    /\ \A i \in DOMAIN swapChain : SpentBy(swapChain[i]) \cap SpentBy(block) = {}
    /\ orderBook' = ConnectBlock(orderBook, block, 1000 + Len(swapChain) + 1)
    /\ swapChain' = Append(swapChain, block)
    /\ obRet' = [NoObRet EXCEPT !.op = "ConnectBlock", !.block = block,
                                !.height = 1000 + Len(swapChain) + 1,
                                !.before = orderBook]
    /\ UNCHANGED <<clVars, isVars, mnVars, lockVars, activeQuorums, signingManager,
                   crashed>>

\* the validation layer disconnects the last block of the chain
Call_DisconnectBlock ==
    /\ swapChain # <<>>
    /\ orderBook' = DisconnectBlock(orderBook, swapChain[Len(swapChain)],
                                    1000 + Len(swapChain))
    /\ swapChain' = SubSeq(swapChain, 1, Len(swapChain) - 1)
    /\ obRet' = [NoObRet EXCEPT !.op = "DisconnectBlock",
                                !.block = swapChain[Len(swapChain)],
                                !.height = 1000 + Len(swapChain)]
    /\ UNCHANGED <<clVars, isVars, mnVars, lockVars, activeQuorums, signingManager,
                   crashed>>

OrderBookNext ==
    \/ \E offer \in SwapOffers : Call_AddOffer(offer, FundingOutpoint(offer))
    \/ \E offer \in SwapOffers : Call_RemoveOffer(offer.offerHash)
    \/ \E h \in CleanupHeights : Call_CleanupExpired(h)
    \/ \E block \in SwapBlocks : Call_ConnectBlock(block)
    \/ Call_DisconnectBlock

SpecOrderBook == Init /\ [][OrderBookNext]_vars

\* ------------------------------------------------------------------------
\* Order-book properties
\* ------------------------------------------------------------------------
\* the step removes the offer that the step before it added
RemovesJustAdded ==
    /\ obRet.op = "AddOffer"
    /\ obRet.ok
    /\ obRet'.op = "RemoveOffer"
    /\ obRet'.offerHash = obRet.offerHash

\* C26 as stated: adding an offer and then removing it leaves the offers map,
\* the pair index and the funding-outpoint index equal to their values
\* before the add.
C26_AddThenRemoveRestoresExactly ==
    [][RemovesJustAdded =>
          /\ orderBook'.offers = obRet.before.offers
          /\ orderBook'.offersByPair = obRet.before.offersByPair
          /\ orderBook'.offerUTXOs = obRet.before.offerUTXOs]_vars

\* C26 amended: after a successful add and the removal of that offer, the
\* offers map, the funding-outpoint index and the stored offers are equal to
\* their values before the add, and every pair key has the offers it had
\* before; the pair key of the offer keeps a bucket, empty if the offer was
\* the first of its pair.
C26_AddThenRemoveRestoresOffers ==
    [][RemovesJustAdded =>
          /\ orderBook'.offers = obRet.before.offers
          /\ orderBook'.offerUTXOs = obRet.before.offerUTXOs
          /\ orderBook'.db = obRet.before.db
          /\ obRet'.ok
          /\ DOMAIN obRet.before.offersByPair \subseteq DOMAIN orderBook'.offersByPair
          /\ \A k \in DOMAIN orderBook'.offersByPair :
                orderBook'.offersByPair[k] = Bucket(obRet.before, k)]_vars

\* an offer was added and at once removed while other offers are in the
\* book, and a pair key without offers has kept its bucket
C26_Witness ==
    /\ obRet.op = "RemoveOffer"
    /\ obRet.ok
    /\ obRet.afterAdd
    /\ orderBook.offers # EmptyMap
    /\ \E k \in DOMAIN orderBook.offersByPair : orderBook.offersByPair[k] = {}

\* C27: expiry cleanup at height h removes exactly the offers whose
\* created-height + timeout is at most h and leaves every other offer, its
\* funding outpoint and its place in the pair index as they were.
C27_CleanupRemovesExactlyExpired ==
    [][obRet'.op = "CleanupExpired" =>
          /\ DOMAIN orderBook'.offers
                = {k \in DOMAIN orderBook.offers :
                      ~(orderBook.offers[k].createdHeight + orderBook.offers[k].timeoutBlocks
                            <= obRet'.height)}
          /\ \A k \in DOMAIN orderBook'.offers :
                /\ orderBook'.offers[k] = orderBook.offers[k]
                /\ k \in DOMAIN orderBook'.offerUTXOs
                /\ orderBook'.offerUTXOs[k] = orderBook.offerUTXOs[k]
          /\ DOMAIN orderBook'.offerUTXOs = DOMAIN orderBook'.offers
          /\ \A p \in DOMAIN orderBook'.offersByPair :
                orderBook'.offersByPair[p]
                    = Bucket(orderBook, p) \cap DOMAIN orderBook'.offers]_vars

\* the offers created at 1000 with timeouts 100 and 500 were in the book and
\* cleanup at 1150 removed the first and kept the second
C27_Witness ==
    /\ obRet.op = "CleanupExpired"
    /\ obRet.height = 1150
    /\ <<"offer", 1>> \in obRet.removed
    /\ <<"offer", 2>> \in DOMAIN orderBook.offers
    /\ orderBook.offers[<<"offer", 2>>].timeoutBlocks = 500

\* the hashes of the transactions of the block that spend the outpoint
SpendersOf(block, outpoint) ==
    {block.vtx[i].hash :
        i \in {j \in DOMAIN block.vtx :
                  \E n \in DOMAIN block.vtx[j].vin : block.vtx[j].vin[n] = outpoint}}

\* C28: on block connect an offer is marked filled, with the hash of the
\* spending transaction, exactly when it is active and its funding outpoint
\* is spent by a transaction of the block; every other offer is unchanged.
C28_ConnectFillsActiveSpentOffers ==
    [][obRet'.op = "ConnectBlock" =>
          /\ DOMAIN orderBook'.offers = DOMAIN orderBook.offers
          /\ \A k \in DOMAIN orderBook.offers :
                IF /\ orderBook.offers[k].isActive
                   /\ SpendersOf(obRet'.block, orderBook.offerUTXOs[k]) # {}
                THEN /\ ~orderBook'.offers[k].isActive
                     /\ orderBook'.offers[k].isFilled
                     /\ orderBook'.offers[k].fillTxHash
                            \in SpendersOf(obRet'.block, orderBook.offerUTXOs[k])
                ELSE orderBook'.offers[k] = orderBook.offers[k]]_vars

\* asset names callers pass: the empty name, the native symbol and two assets
AssetNames == {<<>>, MYNTA, GOLD, SILVER}

\* the two asset names of an offer with the empty name replaced by the
\* native symbol
UnorderedPair(offer) ==
    {IF offer.makerAssetName = <<>> THEN MYNTA ELSE offer.makerAssetName,
     IF offer.takerAssetName = <<>> THEN MYNTA ELSE offer.takerAssetName}

\* C29: the trading-pair key does not depend on the order of the two asset
\* names and treats the empty name as the native symbol, and any two offers
\* of the book on the same unordered pair are in the same bucket of the pair
\* index.
C29_PairKeySymmetric ==
    /\ \A a, b \in AssetNames :
          /\ GetTradingPairKey(a, b) = GetTradingPairKey(b, a)
          /\ GetTradingPairKey(<<>>, b) = GetTradingPairKey(MYNTA, b)
    /\ \A h1, h2 \in DOMAIN orderBook.offers :
          UnorderedPair(orderBook.offers[h1]) = UnorderedPair(orderBook.offers[h2])
             => \E k \in DOMAIN orderBook.offersByPair :
                   {h1, h2} \subseteq orderBook.offersByPair[k]

\* the book holds the offer of the native asset for GOLD and the offer of
\* GOLD for the native asset, both in one bucket
C29_Witness ==
    /\ {<<"offer", 1>>, <<"offer", 2>>} \subseteq DOMAIN orderBook.offers
    /\ orderBook.offers[<<"offer", 1>>].makerAssetName
          = orderBook.offers[<<"offer", 2>>].takerAssetName
    /\ orderBook.offers[<<"offer", 1>>].takerAssetName
          = orderBook.offers[<<"offer", 2>>].makerAssetName
    /\ \E k \in DOMAIN orderBook.offersByPair :
          {<<"offer", 1>>, <<"offer", 2>>} \subseteq orderBook.offersByPair[k]

\* the orderings of the inputs of a lock
Orderings(inputs) ==
    {s \in [DOMAIN inputs -> {inputs[j] : j \in DOMAIN inputs}] :
        \A o \in {inputs[j] : j \in DOMAIN inputs} :
            Cardinality({j \in DOMAIN s : s[j] = o})
                = Cardinality({j \in DOMAIN inputs : inputs[j] = o})}

\* C30: the request id of a stored InstantSend lock is the request id of the
\* lock with the same inputs in any other order.
C30_RequestIdIgnoresInputOrder ==
    \A h \in StoredLocks :
        \A s \in Orderings(instantSendManager.db.locksById[h].inputs) :
            CInstantSendLock_GetRequestId(
                [instantSendManager.db.locksById[h] EXCEPT !.inputs = s])
              = CInstantSendLock_GetRequestId(instantSendManager.db.locksById[h])

\* ------------------------------------------------------------------------
\* Lock waits
\* ------------------------------------------------------------------------
\* thread t stands at a LOCK of a lock that thread u holds
WaitsFor(t, u) ==
    LET th == lockThreads[t]
        trace == LockTrace(th.op)
    IN  /\ t # u
        /\ th.op # ""
        /\ th.pc <= Len(trace)
        /\ trace[th.pc].enter
        /\ trace[th.pc].lock \in HeldBy(u)

\* C31: no set of threads exists in which every thread waits for a lock held
\* by another thread of the set (no cycle of lock waits, no deadlock).
C31_NoLockWaitCycle ==
    ~ \E S \in (SUBSET LockThreadIds) \ {{}} :
          \A t \in S : \E u \in S : WaitsFor(t, u)

\* ------------------------------------------------------------------------
\* ChainLock signing session against ChainLock verification
\* ------------------------------------------------------------------------
\* the hashes the signature sig was made over
SignedHashes(sig) == {t[2] : t \in BagToSet(sig.terms)}

\* ProcessNewBlock has just made this node's share for the tip
SignedTipShare ==
    LET id == CChainLocksManager_CreateRequestId(tip.nHeight)
    IN  /\ clRet'.op = "ProcessNewBlock"
        /\ quorumManager_myProTxHash \notin DOMAIN HeldShares(signingManager, id)
        /\ quorumManager_myProTxHash \in DOMAIN HeldShares(signingManager', id)

\* C32: a share made by ProcessNewBlock for the tip signs the hash that
\* GetSignHash gives for the ChainLock of the tip, and when the session's
\* signature is recovered in that call the ChainLock of the tip is stored.
C32_SessionHashIsVerifiedHash ==
    [][SignedTipShare =>
          LET id == CChainLocksManager_CreateRequestId(tip.nHeight)
          IN  /\ SignedHashes(HeldShares(signingManager', id)[quorumManager_myProTxHash])
                   = {CChainLockSig_GetSignHash(
                          CChainLockSig(tip.nHeight, GetBlockHash(tip), NullSig))}
              /\ id \in DOMAIN signingManager'.recoveredSigs
                   => IsChainLocked(chainLocksManager'.db, tip.nHeight)]_vars

\* ------------------------------------------------------------------------
\* InstantSend signing session against InstantSend lock verification
\* ------------------------------------------------------------------------
\* a signing attempt for transaction isRet'.tx has just made this node's share
SignedTxShare ==
    LET id == CInstantSendManager_CreateRequestId(isRet'.tx.vin)
    IN  /\ isRet'.op \in {"SignLockRequest", "ProcessTransaction"}
        /\ quorumManager_myProTxHash \notin DOMAIN HeldShares(signingManager, id)
        /\ quorumManager_myProTxHash \in DOMAIN HeldShares(signingManager', id)

\* C33: a share made by a signing attempt for a transaction signs the hash
\* that GetSignHash gives for the lock of that transaction under the selected
\* quorum, and when the session's signature is recovered in that call the
\* transaction is locked in the lock database and no longer pending.
C33_SessionHashIsVerifiedHash ==
    [][SignedTxShare =>
          LET tx == isRet'.tx
              id == CInstantSendManager_CreateRequestId(tx.vin)
              quorum == SelectQuorumForSigning(activeQuorums[INSTANTSEND_QUORUM_TYPE],
                                               INSTANTSEND_QUORUM_TYPE, id)
          IN  /\ SignedHashes(HeldShares(signingManager', id)[quorumManager_myProTxHash])
                   = {CInstantSendLock_GetSignHash(
                          CInstantSendLock(tx.vin, tx.hash, quorum.quorumHash, NullSig))}
              /\ id \in DOMAIN signingManager'.recoveredSigs
                   => /\ IsTxLocked(instantSendManager'.db, tx.hash)
                      /\ tx.hash \notin DOMAIN instantSendManager'.pendingTxs]_vars

\* ------------------------------------------------------------------------
\* Two transactions spending the same outpoint
\* ------------------------------------------------------------------------
DoubleSpend == CTransaction(NumOutpoints + 1, <<COutPoint(1)>>)

ConflictingTransactions == {SpendOne(1), DoubleSpend}

ConflictQuorumLists ==
    {<<QuorumA(INSTANTSEND_QUORUM_TYPE).quorumHash>>,
     <<QuorumC(INSTANTSEND_QUORUM_TYPE).quorumHash>>}

ConflictNext ==
    \/ \E list \in ConflictQuorumLists : SetActiveQuorums(INSTANTSEND_QUORUM_TYPE, list)
    \/ Call_SetMyProTxHash
    \/ \E islock \in ReceivedLocks : Call_ProcessInstantSendLock(islock)
    \/ \E tx \in ConflictingTransactions : ProcessTransaction_Check(tx)
    \/ ProcessTransaction_Add
    \/ ProcessTransaction_Sign

\* the InstantSend manager seeing a transaction and a double spend of it
SpecISConflict == Init /\ [][ConflictNext]_vars

\* C34: when this node replaces its share under a request id by another share
\* for the same quorum, both shares are over the same message hash.
C34_OneMessagePerRequestId ==
    [][\A id \in DOMAIN signingManager.sigShares :
          (/\ quorumManager_myProTxHash \in DOMAIN signingManager.sigShares[id]
           /\ quorumManager_myProTxHash \in DOMAIN HeldShares(signingManager', id))
          => \A h1 \in SignedHashes(signingManager.sigShares[id][quorumManager_myProTxHash]),
                h2 \in SignedHashes(signingManager'.sigShares[id][quorumManager_myProTxHash]) :
                 h1[3] = h2[3] => h1[5] = h2[5]]_vars

\* ------------------------------------------------------------------------
\* What a recovered signature was recovered from
\* ------------------------------------------------------------------------
\* the message hashes the recovered signature's shares were made over
RecoveredFrom(recSig) == {h[5] : h \in SignedHashes(recSig.sig)}

\* C35: in every state of the signing manager, a successful TryRecoverSignature
\* for a session and its message hash M returns a RecoveredSig that names M
\* and whose signature comes from shares over M only.
C35_RecoveredSigIsOverRequestedMessage ==
    \A id \in SessionIds :
        RecoveryIn(signingManager, id).ok
          => /\ RecoveryIn(signingManager, id).recSig.msgHash = SessionMsgHash(id)
             /\ RecoveredFrom(RecoveryIn(signingManager, id).recSig) = {SessionMsgHash(id)}

\* ------------------------------------------------------------------------
\* Registrations over several blocks
\* ------------------------------------------------------------------------
\* block bodies: two registrations that share nothing, and a third one
RegistrationBodies ==
    {[vtx |-> <<ProRegTx(1, 1, 1, 1), ProRegTx(6, 2, 2, 2)>>],
     [vtx |-> <<NormalTx, ProRegTx(7, 3, 3, 3)>>]}

RegistrationNext ==
    \/ \E block \in RegistrationBodies, pindex \in AllBlocks, fJustCheck \in BOOLEAN :
           Call_ProcessSpecialTxsInBlock(block, pindex, fJustCheck)
    \/ \E pindex \in AllBlocks : Call_UndoSpecialTxsInBlock(pindex)
    \/ \E pindex \in AllBlocks : Call_GetListForBlock(pindex)

\* the masternode manager while blocks with registrations are connected and
\* disconnected
SpecMNRegister == InitMN /\ [][RegistrationNext]_vars

\* C36: in every masternode list block processing has produced, no two
\* entries have the same internalId.
C36_InternalIdsDistinct ==
    \A list \in ProducedLists :
        \A a, b \in DOMAIN list.mnMap :
            a # b => list.mnMap[a].internalId # list.mnMap[b].internalId

\* ------------------------------------------------------------------------
\* Registrar updates and the PoSe state
\* ------------------------------------------------------------------------
\* a registrar update of registration reg by owner o that provides the
\* operator key key (<<>>: none) and nothing else
ProUpRegTxWithKey(k, reg, o, key) ==
    ProviderTx(k, TRANSACTION_PROVIDER_UPDATE_REGISTRAR,
               [kind |-> "CProUpRegTx", nVersion |-> CURRENT_VERSION,
                proTxHash |-> <<"tx", reg>>, nMode |-> 0,
                vchOperatorPubKey |-> key, keyIDVoting |-> CKeyID(0),
                scriptPayout |-> <<>>, inputsHash |-> NullHash, vchSig |-> <<>>],
               CKeyID(o))

\* block bodies: a registration; its revocation (which sets the ban height);
\* registrar updates of it with no operator key, with the key it registered
\* and with a new key
RegistrarBodies ==
    {[vtx |-> <<NormalTx, ProRegTx(1, 1, 1, 1)>>],
     [vtx |-> <<ProUpRevTx(5, 1, 1)>>],
     [vtx |-> <<ProUpRegTxWithKey(8, 1, 1, <<>>)>>],
     [vtx |-> <<ProUpRegTxWithKey(9, 1, 1, OperatorPubKey(1, 48))>>],
     [vtx |-> <<ProUpRegTx(4, 1, 1)>>]}

RegistrarNext ==
    \/ \E block \in RegistrarBodies, pindex \in AllBlocks, fJustCheck \in BOOLEAN :
           Call_ProcessSpecialTxsInBlock(block, pindex, fJustCheck)
    \/ \E pindex \in AllBlocks : Call_UndoSpecialTxsInBlock(pindex)
    \/ \E pindex \in AllBlocks : Call_GetListForBlock(pindex)

\* the masternode manager while blocks with a registration, a revocation and
\* registrar updates are connected and disconnected
SpecMNRegistrar == InitMN /\ [][RegistrarNext]_vars

PoSeState(state) == <<state.nPoSePenalty, state.nPoSeBanHeight, state.nPoSeRevivedHeight>>

\* a block with the registrar update tx as its only transaction was connected
\* on top of a list that has the updated entry
ConnectedRegistrarUpdate(tx) ==
    /\ mnRet'.op = "ProcessSpecialTxsInBlock"
    /\ mnRet'.ok
    /\ ~mnRet'.fJustCheck
    /\ blockTxs'[GetBlockHash(mnRet'.pindex)].vtx = <<tx>>
    /\ tx.nType = TRANSACTION_PROVIDER_UPDATE_REGISTRAR
    /\ tx.vExtraPayload.proTxHash \in DOMAIN mnRet'.prevList.mnMap

\* C37: a connected registrar update resets the PoSe state of its entry
\* (penalty 0, ban height -1, revival height = block height) when it provides
\* an operator key other than the entry's, and leaves the PoSe state as it
\* was when it provides the entry's key or none.
C37_PoSeResetOnlyOnOperatorKeyChange ==
    [][\A block \in RegistrarBodies : \A j \in DOMAIN block.vtx :
          ConnectedRegistrarUpdate(block.vtx[j])
          => LET proTx == block.vtx[j].vExtraPayload
                 old == mnRet'.prevList.mnMap[proTx.proTxHash].state
                 new == mnManager'.tipList[1].mnMap[proTx.proTxHash].state
             IN  IF proTx.vchOperatorPubKey # <<>>
                    /\ proTx.vchOperatorPubKey # old.vchOperatorPubKey
                 THEN PoSeState(new) = <<0, -1, mnRet'.pindex.nHeight>>
                 ELSE PoSeState(new) = PoSeState(old)]_vars

\* the step disconnects the block that the step before it connected
DisconnectsJustConnected ==
    /\ obRet.op = "ConnectBlock"
    /\ obRet'.op = "DisconnectBlock"
    /\ obRet'.block = obRet.block

\* C38: disconnecting the block that was just connected leaves the offers,
\* the pair index and the funding-outpoint index as they were before the
\* connect; the offers the block filled are active and unfilled again.
C38_DisconnectRestoresFilledOffers ==
    [][DisconnectsJustConnected =>
          /\ orderBook'.offers = obRet.before.offers
          /\ orderBook'.offersByPair = obRet.before.offersByPair
          /\ orderBook'.offerUTXOs = obRet.before.offerUTXOs]_vars

\* ------------------------------------------------------------------------
\* Active quorums on a tip update (llmq/quorums.cpp).  The chain grows and
\* shrinks by one main-chain block at a time; the list of valid masternodes
\* at a block is given by its size.
\* ------------------------------------------------------------------------
LLMQ_NONE == 0

\* the entries of llmqParams for the two quorum types in use; size and minSize
\* are scaled down by ten (50/40 and 400/300 in the source), the intervals
\* and active counts are the source's
GetLLMQParams(type) ==
    CASE type = LLMQ_50_60 ->
             [type |-> LLMQ_50_60, size |-> 5, minSize |-> 4, threshold |-> 60,
              dkgInterval |-> 24, dkgPhaseBlocks |-> 6, signingActiveQuorumCount |-> 24]
      [] type = LLMQ_400_60 ->
             [type |-> LLMQ_400_60, size |-> 40, minSize |-> 30, threshold |-> 60,
              dkgInterval |-> 288, dkgPhaseBlocks |-> 20, signingActiveQuorumCount |-> 4]
      [] OTHER ->
             [type |-> LLMQ_NONE, size |-> 0, minSize |-> 0, threshold |-> 0,
              dkgInterval |-> 0, dkgPhaseBlocks |-> 0, signingActiveQuorumCount |-> 0]

\* number of valid masternodes with an operator key in the list of the block
\* at height h: none in the early chain, too few for any quorum during an
\* outage, enough for either type otherwise (scaled like the sizes)
MasternodeCountAt(h) ==
    IF h < 100 THEN 0 ELSE IF h \in 560..760 THEN 3 ELSE 40

\* the first size masternodes in score order; the score order of the block at
\* height h is taken to be h + 1, h + 2, ... (modulo the number of masternodes)
SelectQuorumMembers(type, pindex) ==
    LET count == MasternodeCountAt(pindex.nHeight)
        n == IF count < GetLLMQParams(type).size THEN count ELSE GetLLMQParams(type).size
    IN  [j \in 1..n |-> ((pindex.nHeight + j) % count) + 1]

CQuorumManager_BuildQuorum(type, pindex) ==
    IF pindex = nullptr THEN NoQuorum
    ELSE IF GetLLMQParams(type).type = LLMQ_NONE THEN NoQuorum
    ELSE IF Len(SelectQuorumMembers(type, pindex)) < GetLLMQParams(type).minSize
    THEN NoQuorum
    ELSE The({[quorum EXCEPT
                  !.fValid = quorum.validMemberCount >= GetLLMQParams(type).minSize] :
              quorum \in {BuildQuorum(type, pindex,
                                      SelectQuorumMembers(type, pindex), FALSE)}})

\* CBlockIndex::GetAncestor for a block of the main chain
GetAncestor(pindex, height) ==
    IF height > pindex.nHeight \/ height < 0 THEN nullptr
    ELSE [nHeight |-> height, branch |-> 0]

\* the loop of UpdatedBlockTip for one type, from iteration i on
RECURSIVE BuildActive(_, _, _, _, _)
BuildActive(type, pindex, quorumHeight, i, newActive) ==
    IF ~(i < GetLLMQParams(type).signingActiveQuorumCount /\ quorumHeight > 0)
    THEN newActive
    ELSE The({BuildActive(type, pindex, quorumHeight - GetLLMQParams(type).dkgInterval,
                          i + 1,
                          IF quorum # NoQuorum /\ quorum.fValid
                          THEN Append(newActive, quorum.quorumHash)
                          ELSE newActive) :
              quorum \in {CQuorumManager_BuildQuorum(
                              type, GetAncestor(pindex, quorumHeight))}})

\* UpdatedBlockTip that starts at the tip instead of the last quorum height
CQuorumManager_UpdatedBlockTip_FromTip(act, pindex) ==
    IF pindex = nullptr THEN act
    ELSE [type \in DOMAIN act |-> BuildActive(type, pindex, pindex.nHeight, 0, <<>>)]

CQuorumManager_UpdatedBlockTip(act, pindex) ==
    IF pindex = nullptr THEN act
    ELSE [type \in DOMAIN act |->
             BuildActive(type, pindex,
                         pindex.nHeight
                           - (pindex.nHeight % GetLLMQParams(type).dkgInterval),
                         0, <<>>)]

\* number of blocks the chain grows by
QuorumTipSpan == 740

\* the chain layer connects a block (d = 1) or disconnects the tip (d = -1)
\* and notifies the quorum manager of the new tip
Call_QuorumUpdatedBlockTip(d) ==
    /\ ~crashed
    /\ tip.nHeight + d \in MinHeight..(MinHeight + QuorumTipSpan)
    /\ tip' = [nHeight |-> tip.nHeight + d, branch |-> 0]
    /\ activeQuorums' = CQuorumManager_UpdatedBlockTip(activeQuorums, tip')
    /\ UNCHANGED <<known, signingManager, chainLocksManager, clRet, crashed,
                   isVars, mnVars, lockVars, obVars>>

QuorumTipNext == \E d \in {-1, 1} : Call_QuorumUpdatedBlockTip(d)

\* the quorum manager following the tip
SpecQuorumTip == Init /\ [][QuorumTipNext]_vars

\* the A most recent heights at or below T that are multiples of the interval
RecentQuorumHeights(type, T) ==
    {h \in 0..T :
        /\ h % GetLLMQParams(type).dkgInterval = 0
        /\ h > T - (T % GetLLMQParams(type).dkgInterval)
                 - GetLLMQParams(type).signingActiveQuorumCount
                     * GetLLMQParams(type).dkgInterval}

\* the hashes of the valid quorums that exist at the given heights
QuorumsAt(type, heights) ==
    {QuorumHash(type, [nHeight |-> h, branch |-> 0]) :
        h \in {g \in heights :
                  /\ CQuorumManager_BuildQuorum(type, [nHeight |-> g, branch |-> 0])
                       # NoQuorum
                  /\ CQuorumManager_BuildQuorum(type, [nHeight |-> g, branch |-> 0]).fValid}}

\* C39: after a tip update to height T the active list of each quorum type
\* holds, once each, the quorums at the A most recent multiples of the
\* interval up to T, and no other quorum.
C39_ActiveSetIsRecentQuorums ==
    [][tip' # tip =>
          \A type \in LLMQTypes :
             /\ {activeQuorums'[type][j] : j \in DOMAIN activeQuorums'[type]}
                  = QuorumsAt(type, RecentQuorumHeights(type, tip'.nHeight))
             /\ Len(activeQuorums'[type])
                  = Cardinality(QuorumsAt(type, RecentQuorumHeights(type, tip'.nHeight)))]_vars

\* the tip has just reached a quorum height, the InstantSend type has all of
\* its 24 active quorums, and the ChainLock type lacks one because no quorum
\* could be formed at one of its four heights
C39_Witness ==
    /\ tip.nHeight % GetLLMQParams(LLMQ_50_60).dkgInterval = 0
    /\ Len(activeQuorums[LLMQ_50_60]) = GetLLMQParams(LLMQ_50_60).signingActiveQuorumCount
    /\ Len(activeQuorums[LLMQ_400_60]) = 3
    /\ QuorumHash(LLMQ_400_60, [nHeight |-> 1440, branch |-> 0])
         \in {activeQuorums[LLMQ_400_60][j] : j \in DOMAIN activeQuorums[LLMQ_400_60]}

\* ------------------------------------------------------------------------
\* Snapshot cache
\* ------------------------------------------------------------------------
\* the snapshots a step of block processing has dropped from the cache
Evicted ==
    IF mnRet'.op = "ProcessSpecialTxsInBlock"
    THEN DOMAIN mnManager.mnListsCache \ DOMAIN mnManager'.mnListsCache
    ELSE {}

\* C40: after every step that inserts into the snapshot cache the cache holds
\* at most MAX_CACHE_SIZE snapshots, and when block processing evicts a
\* snapshot every snapshot that stays in the cache is of a higher block.
C40_CacheBoundedOldestFirst ==
    [][/\ DOMAIN mnManager'.mnListsCache \ DOMAIN mnManager.mnListsCache # {}
            => Cardinality(DOMAIN mnManager'.mnListsCache) <= MAX_CACHE_SIZE
       /\ \A e \in Evicted : \A k \in DOMAIN mnManager'.mnListsCache :
             mnManager'.mnListsCache[k].nHeight > mnManager.mnListsCache[e].nHeight]_vars

====
